---- MODULE Spec2Model ----
(***************************************************************************)
(* A model of the repository engine of rustic: the prune engine            *)
(* (src/src/commands/prune.rs), the retention engine                       *)
(* (src/src/commands/forget.rs) and merge --delete                         *)
(* (src/src/commands/merge_cmd.rs), over a store of index files, pack      *)
(* files and snapshot files.                                               *)
(***************************************************************************)
EXTENDS Integers, Sequences, FiniteSets, TLC

VARIABLES
    indexFiles,   \* store, kind Index: index id -> [packs, packs_to_delete]
    packFiles,    \* store, kind Pack: pack id -> size of the stored file
    snapshots,    \* store, kind Snapshot: set of snapshot records
    config,       \* store, kind Config: [version, is_hot]
    clock,        \* wall clock (Local::now())
    nextId,       \* source of fresh file ids (ids are hashes of new bytes)
    run,          \* the prune run in progress: pc, options, Pruner fields, locals of do_prune
    start,        \* the store as it was when the current prune run began
    prev,         \* the prune run before the current one: its run record and its start
    runs,         \* number of prune runs that may still be started
    fg            \* the last forget, merge or check run: its inputs and its outcome

vars == <<indexFiles, packFiles, snapshots, config, clock, nextId, run, start, prev, runs, fg>>

-----------------------------------------------------------------------------
(* Bounds of the model *)

\* prune runs explored one after the other
MaxRuns == 2
\* last value of the wall clock
MaxTime == 3

-----------------------------------------------------------------------------
(* Sequence helpers *)

Range(s) == {s[i] : i \in 1..Len(s)}

RECURSIVE SumSeq(_)
SumSeq(s) == IF s = <<>> THEN 0 ELSE Head(s) + SumSeq(Tail(s))

RECURSIVE Flatten(_)
Flatten(ss) == IF ss = <<>> THEN <<>> ELSE Head(ss) \o Flatten(Tail(ss))

RECURSIVE SetToSeq(_)
SetToSeq(S) == IF S = {} THEN <<>>
               ELSE LET x == CHOOSE y \in S : TRUE IN <<x>> \o SetToSeq(S \ {x})

Min(a, b) == IF a < b THEN a ELSE b

\* all orderings of a finite set, as sequences
Perms(S) == {p \in [1..Cardinality(S) -> S] : \A a, b \in 1..Cardinality(S) : p[a] = p[b] => a = b}

-----------------------------------------------------------------------------
(* The repository's contents: blobs, trees, packs *)

DataBlobs == {"D1", "D2", "D3"}
TreeBlobs == {"T1", "T2", "T3", "T4"}

\* BlobType of a blob id
BlobTpe(id) == IF id \in TreeBlobs THEN "Tree" ELSE "Data"

\* ciphertext length of a blob inside a pack
BlobLength(id) ==
    CASE id = "D1" -> 100
      [] id = "D2" -> 200
      [] id = "D3" -> 300
      [] id = "T1" -> 50
      [] OTHER     -> 60

\* Tree: the nodes of a tree blob. files: content ids of its File nodes;
\* dirs: subtree ids of its Dir nodes.
TreeNodes(t) ==
    CASE t = "T1" -> [files |-> {"D1"}, dirs |-> {"T2"}]
      [] t = "T3" -> [files |-> {"D1", "D2"}, dirs |-> {"T2"}]
      [] t = "T4" -> [files |-> {"D3"}, dirs |-> {"T2"}]
      [] OTHER    -> [files |-> {"D2"}, dirs |-> {}]

\* Option::None for a pack's time and size
NoTime == -1
NoSize == -1

\* IndexBlob {id, tpe, length, uncompressed_length}; comp: uncompressed_length.is_some()
IndexBlob(id, comp) == [id |-> id, tpe |-> BlobTpe(id), length |-> BlobLength(id), comp |-> comp]

\* IndexPack {id, time, size, blobs}
IndexPack(id, time, size, blobs) == [id |-> id, time |-> time, size |-> size, blobs |-> blobs]

COMP_OVERHEAD == 32
LENGTH_LEN == 4
ENTRY_LEN == 37
ENTRY_LEN_COMPRESSED == 41

\* HeaderEntry::from_blob(blob).length()
HeaderEntryLength(blob) == IF blob.comp THEN ENTRY_LEN_COMPRESSED ELSE ENTRY_LEN

\* what the fold of PackHeaderRef::pack_size adds for the blobs lo..hi, summed
\* half by half
RECURSIVE pack_size_fold(_, _, _)
pack_size_fold(blobs, lo, hi) ==
    IF lo > hi THEN 0
    ELSE IF lo = hi THEN blobs[lo].length + HeaderEntryLength(blobs[lo])
    ELSE LET mid == (lo + hi) \div 2
         IN pack_size_fold(blobs, lo, mid) + pack_size_fold(blobs, mid + 1, hi)

\* PackHeaderRef::pack_size
PackHeaderRef_pack_size(blobs) == COMP_OVERHEAD + LENGTH_LEN + pack_size_fold(blobs, 1, Len(blobs))

\* IndexPack::pack_size: the recorded size, else the size derived from the blobs
IndexPack_pack_size(p) == IF p.size # NoSize THEN p.size ELSE PackHeaderRef_pack_size(p.blobs)

\* IndexPack::blob_type: the type of the pack's first blob, Data for an empty pack
IndexPack_blob_type(p) == IF p.blobs = <<>> THEN "Data" ELSE p.blobs[1].tpe

\* BlobType::is_cacheable: tree packs are cacheable, data packs are not
is_cacheable(tpe) == tpe = "Tree"

-----------------------------------------------------------------------------
(* prune: reading the repository (execute, find_used_blobs) *)

\* all IndexPack entries of an index file, packs and packs_to_delete
AllEntries(f) == Range(f.packs) \cup Range(f.packs_to_delete)

\* IndexCollector(OnlyTrees) extended with packs and packs_to_delete of every index
\* file: the tree blobs it resolves, given that the pack holding them can be read
IndexedTrees(idx, pk) ==
    {b.id : b \in UNION {Range(e.blobs) : e \in {e \in UNION {AllEntries(idx[i]) : i \in DOMAIN idx} : e.id \in DOMAIN pk}}}
        \cap TreeBlobs

\* the trees reachable from a set of root trees (TreeStreamerOnce visits each once)
RECURSIVE ReachTrees(_, _)
ReachTrees(todo, seen) ==
    IF todo \subseteq seen THEN seen
    ELSE LET t == CHOOSE x \in todo \ seen : TRUE
         IN ReachTrees((todo \ {t}) \cup TreeNodes(t).dirs, seen \cup {t})

\* find_used_blobs: the ids of the snapshot trees, of every File node's content and
\* of every Dir node's subtree; "err" when a tree to read is not in the index
find_used_blobs(idx, pk, snaps, ignore_snaps) ==
    LET list  == {s \in snaps : s.id \notin ignore_snaps}
        roots == {s.tree : s \in list}
        trees == ReachTrees(roots, {})
    IN IF ~(trees \subseteq IndexedTrees(idx, pk)) THEN [err |-> TRUE, ids |-> {}]
       ELSE [err |-> FALSE,
             ids |-> roots \cup UNION {TreeNodes(t).files \cup TreeNodes(t).dirs : t \in trees}]

-----------------------------------------------------------------------------
(* prune: Pruner::new *)

PrunePack_from_index_pack(p, delete_mark) ==
    [id |-> p.id, blob_type |-> IndexPack_blob_type(p), size |-> IndexPack_pack_size(p),
     delete_mark |-> delete_mark, to_do |-> "Undecided", time |-> p.time, blobs |-> p.blobs]

\* filter(|p| processed.insert(p.id)): the entries kept, the set afterwards, and
\* whether a duplicate was dropped
RECURSIVE FilterDuplicates(_, _)
FilterDuplicates(ps, seen) ==
    IF ps = <<>> THEN [kept |-> <<>>, seen |-> seen, dup |-> FALSE]
    ELSE LET p == Head(ps)
             isdup == p.id \in seen
             r == FilterDuplicates(Tail(ps), seen \cup {p.id})
         IN [kept |-> IF isdup THEN r.kept ELSE <<p>> \o r.kept,
             seen |-> r.seen, dup |-> isdup \/ r.dup]

\* the first loop of Pruner::new over the index files, in the order streamed
RECURSIVE Pruner_new_map(_, _, _)
Pruner_new_map(files, processed_packs, processed_packs_delete) ==
    IF files = <<>> THEN [index_files |-> <<>>, processed_packs |-> processed_packs]
    ELSE LET f == Head(files)
             a == FilterDuplicates(f.index.packs, processed_packs)
             b == FilterDuplicates(f.index.packs_to_delete, processed_packs_delete)
             pi == [id |-> f.id, modified |-> a.dup \/ b.dup,
                    packs |-> [i \in 1..Len(a.kept) |-> PrunePack_from_index_pack(a.kept[i], FALSE)]
                           \o [i \in 1..Len(b.kept) |-> PrunePack_from_index_pack(b.kept[i], TRUE)]]
             r == Pruner_new_map(Tail(files), a.seen, b.seen)
         IN [index_files |-> <<pi>> \o r.index_files, processed_packs |-> r.processed_packs]

\* fault: the second loop of Pruner::new drops the entries and leaves the flag
Pruner_new_retain_unflagged(index, processed_packs) ==
    LET keep(p) == ~p.delete_mark \/ p.id \notin processed_packs
    IN [id |-> index.id, modified |-> index.modified, packs |-> SelectSeq(index.packs, keep)]

\* retain(|p| !p.delete_mark || !processed_packs.contains(&p.id))
Pruner_new_retain(index, processed_packs) ==
    LET keep(p) == ~p.delete_mark \/ p.id \notin processed_packs
    IN [id |-> index.id,
        modified |-> index.modified \/ \E i \in 1..Len(index.packs) : ~keep(index.packs[i]),
        packs |-> SelectSeq(index.packs, keep)]

\* Pruner::new: the PruneIndex list (time, used_ids and existing_packs are kept in
\* the run record). files: sequence of [id, index].
Pruner_new(files) ==
    LET m == Pruner_new_map(files, {}, {})
    IN [i \in 1..Len(m.index_files) |-> Pruner_new_retain(m.index_files[i], m.processed_packs)]

\* PruneIndex::len
PruneIndex_len(index) == SumSeq([i \in 1..Len(index.packs) |-> Len(index.packs[i].blobs)])

\* all blob entries of the Pruner's index files, in order
AllBlobs(index_files) ==
    Flatten([i \in 1..Len(index_files) |->
                Flatten([j \in 1..Len(index_files[i].packs) |-> index_files[i].packs[j].blobs])])

\* u8::MAX, where count_used_blobs saturates
U8_MAX == 255

\* count.saturating_add(1) for every blob lo..hi with the id: the saturated sum
\* of the two halves
RECURSIVE SaturatingCount(_, _, _, _)
SaturatingCount(blobs, lo, hi, id) ==
    IF lo > hi THEN 0
    ELSE IF lo = hi THEN (IF blobs[lo].id = id THEN 1 ELSE 0)
    ELSE LET mid == (lo + hi) \div 2
         IN Min(SaturatingCount(blobs, lo, mid, id) + SaturatingCount(blobs, mid + 1, hi, id), U8_MAX)

\* Pruner::count_used_blobs; used_ids: blob id -> count
CountBlobs(blobs, used_ids) ==
    [id \in DOMAIN used_ids |-> Min(used_ids[id] + SaturatingCount(blobs, 1, Len(blobs), id), U8_MAX)]

count_used_blobs(index_files, used_ids) == CountBlobs(AllBlobs(index_files), used_ids)

\* Pruner::check: TRUE when no used blob is missing
check(used_ids) == \A id \in DOMAIN used_ids : used_ids[id] # 0

-----------------------------------------------------------------------------
(* prune: PackInfo::from_pack *)

PackInfo_zero(blob_type) ==
    [blob_type |-> blob_type, used_blobs |-> 0, unused_blobs |-> 0, used_size |-> 0, unused_size |-> 0]

AddUnused(pi, blob) ==
    [pi EXCEPT !.unused_size = @ + blob.length, !.unused_blobs = @ + 1]

AddUsed(pi, blob) ==
    [pi EXCEPT !.used_size = @ + blob.length, !.used_blobs = @ + 1]

\* fault: the blob is counted as used and stays counted as unused
Remark_stays_unused(pi, blob) ==
    [pi EXCEPT !.used_size = @ + blob.length, !.used_blobs = @ + 1]

\* "remark blob as used"
Remark(pi, blob) ==
    [pi EXCEPT !.unused_size = @ - blob.length, !.unused_blobs = @ - 1,
               !.used_size = @ + blob.length, !.used_blobs = @ + 1]

\* a blob that is generally needed: Some(count) with count # 0
Needed(used_ids, blob) == blob.id \in DOMAIN used_ids /\ used_ids[blob.id] # 0

\* the closure of position() on the blob at k: the search state after it.
\* first_needed = 0 stands for None.
FirstNeededAt(blobs, k, st) ==
    LET blob == blobs[k] IN
    IF ~Needed(st.used_ids, blob)
    THEN [st EXCEPT !.pi = AddUnused(@, blob)]
    ELSE LET dec == [st.used_ids EXCEPT ![blob.id] = @ - 1] IN
         IF dec[blob.id] = 0
         THEN [first_needed |-> k, used_ids |-> dec, pi |-> AddUsed(st.pi, blob)]
         ELSE [first_needed |-> 0, used_ids |-> dec, pi |-> AddUnused(st.pi, blob)]

\* position() over the blobs lo..hi, in order, half by half; the search ends at
\* the first needed blob
RECURSIVE FirstNeededIn(_, _, _, _)
FirstNeededIn(blobs, lo, hi, st) ==
    IF lo > hi \/ st.first_needed # 0 THEN st
    ELSE IF lo = hi THEN FirstNeededAt(blobs, lo, st)
    ELSE LET mid == (lo + hi) \div 2
             first == FirstNeededIn(blobs, lo, mid, st)
         IN IF first.first_needed # 0 THEN first ELSE FirstNeededIn(blobs, mid + 1, hi, first)

\* the search for the first needed blob, from position k: position() over the blobs
FirstNeeded(blobs, k, used_ids, pi) ==
    FirstNeededIn(blobs, k, Len(blobs), [first_needed |-> 0, used_ids |-> used_ids, pi |-> pi])

\* the reprocessing of the blobs before the first needed one, positions k..last,
\* in order, half by half, the first half evaluated before the second
RECURSIVE RemarkBefore(_, _, _, _, _)
RemarkBefore(blobs, k, last, used_ids, pi) ==
    IF k > last THEN [used_ids |-> used_ids, pi |-> pi]
    ELSE IF k = last
    THEN LET blob == blobs[k] IN
         IF ~Needed(used_ids, blob) THEN [used_ids |-> used_ids, pi |-> pi]
         ELSE [used_ids |-> [used_ids EXCEPT ![blob.id] = 0], pi |-> Remark(pi, blob)]
    ELSE LET mid == (k + last) \div 2
             first == RemarkBefore(blobs, k, mid, used_ids, pi)
         IN IF first.pi.blob_type # pi.blob_type THEN first
            ELSE RemarkBefore(blobs, mid + 1, last, first.used_ids, first.pi)

\* the processing of the blobs lo..hi after the first needed one, in order, half
\* by half, the first half evaluated before the second
RECURSIVE MarkAfterIn(_, _, _, _, _)
MarkAfterIn(blobs, lo, hi, used_ids, pi) ==
    IF lo > hi THEN [used_ids |-> used_ids, pi |-> pi]
    ELSE IF lo = hi
    THEN LET blob == blobs[lo] IN
         IF ~Needed(used_ids, blob) THEN [used_ids |-> used_ids, pi |-> AddUnused(pi, blob)]
         ELSE [used_ids |-> [used_ids EXCEPT ![blob.id] = 0], pi |-> AddUsed(pi, blob)]
    ELSE LET mid == (lo + hi) \div 2
             first == MarkAfterIn(blobs, lo, mid, used_ids, pi)
         IN IF first.pi.blob_type # pi.blob_type THEN first
            ELSE MarkAfterIn(blobs, mid + 1, hi, first.used_ids, first.pi)

\* the processing of the blobs after the first needed one, positions k..Len(blobs)
MarkAfter(blobs, k, used_ids, pi) == MarkAfterIn(blobs, k, Len(blobs), used_ids, pi)

\* PackInfo::from_pack: the PackInfo and the used_ids it leaves
from_pack(pack, used_ids) ==
    LET f == FirstNeeded(pack.blobs, 1, used_ids, PackInfo_zero(pack.blob_type))
    IN IF f.first_needed = 0 THEN [pi |-> f.pi, used_ids |-> f.used_ids]
       ELSE LET b == RemarkBefore(pack.blobs, 1, f.first_needed - 1, f.used_ids, f.pi)
                a == MarkAfter(pack.blobs, f.first_needed + 1, b.used_ids, b.pi)
            IN [pi |-> a.pi, used_ids |-> a.used_ids]

-----------------------------------------------------------------------------
(* prune: decide_packs *)

\* SizeStats, summed over the blob types (stats.size.sum())
SizeStats_zero == [used |-> 0, unused |-> 0, remove |-> 0, repack |-> 0, repackrm |-> 0]

SizeStats_total(st) == st.used + st.unused
SizeStats_unused_after_prune(st) == st.unused - st.remove - st.repackrm

\* PrunePack::set_todo: the size statistics after the decision
set_todo_stats(todo, pi, st) ==
    CASE todo = "Keep" ->
            [st EXCEPT !.used = @ + pi.used_size, !.unused = @ + pi.unused_size]
      [] todo = "Repack" ->
            [st EXCEPT !.used = @ + pi.used_size, !.unused = @ + pi.unused_size,
                       !.repack = @ + pi.unused_size + pi.used_size,
                       !.repackrm = @ + pi.unused_size]
      [] todo = "MarkDelete" ->
            [st EXCEPT !.unused = @ + pi.unused_size, !.remove = @ + pi.unused_size]
      [] OTHER -> st

\* the Pruner after pack.set_todo(todo, &pi, &mut self.stats) on pack (i, j)
set_todo(pr, i, j, todo, pi) ==
    [pr EXCEPT !.index_files[i].packs[j].to_do = todo,
               !.stats = set_todo_stats(todo, pi, @),
               !.packs_repack = IF todo = "Repack" THEN @ + 1 ELSE @]

\* PrunePack::is_compressed
is_compressed(pack) == \A k \in 1..Len(pack.blobs) : pack.blobs[k].comp

\* PackSizer: the target pack size of a blob type and the tolerated deviation, in
\* percent of the target
PackSizer_pack_size(tpe) == IF tpe = "Tree" THEN 150 ELSE 200
MinTolerate == 50
MaxTolerate == 200

\* PackSizer::size_ok
size_ok(tpe, size) ==
    /\ size * 100 >= PackSizer_pack_size(tpe) * MinTolerate
    /\ size * 100 <= PackSizer_pack_size(tpe) * MaxTolerate

\* fault: keep_pack is not looked at
too_young_never(pack, time, keep_pack) == FALSE

\* pack.time > Some(self.time - keep_pack); None is smaller than every Some
too_young(pack, time, keep_pack) == pack.time # NoTime /\ pack.time > time - keep_pack

\* fault: keep_delete is not looked at: a tombstoned pack with no used blob is
\* decided Delete at once
decide_one_no_quarantine(pack, pi, time, keep_pack, keep_delete, repack_cacheable_only, repack_uncompressed) ==
    CASE ~pack.delete_mark /\ pi.used_blobs = 0 ->
            IF too_young(pack, time, keep_pack) THEN "Keep" ELSE "MarkDelete"
      [] ~pack.delete_mark /\ pi.used_blobs > 0 /\ pi.unused_blobs = 0 ->
            IF too_young(pack, time, keep_pack)
                  \/ (repack_cacheable_only /\ ~is_cacheable(pack.blob_type)) THEN "Keep"
            ELSE IF repack_uncompressed /\ ~is_compressed(pack) THEN "ToCompress"
            ELSE IF ~size_ok(pack.blob_type, pack.size) THEN "SizeMismatch"
            ELSE "Keep"
      [] ~pack.delete_mark /\ pi.used_blobs > 0 /\ pi.unused_blobs > 0 ->
            IF too_young(pack, time, keep_pack)
                  \/ (repack_cacheable_only /\ ~is_cacheable(pack.blob_type)) THEN "Keep"
            ELSE "PartlyUsed"
      [] pack.delete_mark /\ pi.used_blobs = 0 -> "Delete"
      [] OTHER -> "Recover"

\* the match of decide_packs on (delete_mark, used_blobs, unused_blobs): the decision,
\* or the reason that makes the pack a repack candidate
decide_one(pack, pi, time, keep_pack, keep_delete, repack_cacheable_only, repack_uncompressed) ==
    LET young == too_young(pack, time, keep_pack)
        keep_uncacheable == repack_cacheable_only /\ ~is_cacheable(pack.blob_type)
        to_compress == repack_uncompressed /\ ~is_compressed(pack)
        size_mismatch == ~size_ok(pack.blob_type, pack.size)
    IN CASE ~pack.delete_mark /\ pi.used_blobs = 0 ->
                IF young THEN "Keep" ELSE "MarkDelete"
         [] ~pack.delete_mark /\ pi.used_blobs > 0 /\ pi.unused_blobs = 0 ->
                IF young \/ keep_uncacheable THEN "Keep"
                ELSE IF to_compress THEN "ToCompress"
                ELSE IF size_mismatch THEN "SizeMismatch"
                ELSE "Keep"
         [] ~pack.delete_mark /\ pi.used_blobs > 0 /\ pi.unused_blobs > 0 ->
                IF young \/ keep_uncacheable THEN "Keep" ELSE "PartlyUsed"
         [] pack.delete_mark /\ pi.used_blobs = 0 ->
                IF time - pack.time >= keep_delete THEN "Delete" ELSE "KeepMarked"
         [] OTHER -> "Recover"

RepackReasons == {"PartlyUsed", "ToCompress", "SizeMismatch"}

\* the positions (index_num, pack_num) in the order decide_packs visits them: the
\* marked packs of every index file, then the unmarked ones
PackPositions(index_files, mark_case) ==
    Flatten([i \in 1..Len(index_files) |->
        SelectSeq([j \in 1..Len(index_files[i].packs) |-> <<i, j>>],
                  LAMBDA ij : index_files[i].packs[ij[2]].delete_mark = mark_case)])

RECURSIVE decide_packs_loop(_, _, _, _, _, _)
decide_packs_loop(pr, pos, keep_pack, keep_delete, repack_cacheable_only, repack_uncompressed) ==
    IF pos = <<>> THEN pr
    ELSE LET i == Head(pos)[1]
             j == Head(pos)[2]
             pack == pr.index_files[i].packs[j]
             fp == from_pack(pack, pr.used_ids)
             d == decide_one(pack, fp.pi, pr.time, keep_pack, keep_delete,
                             repack_cacheable_only, repack_uncompressed)
             pr1 == [pr EXCEPT !.used_ids = fp.used_ids,
                               !.infos = Append(@, [id |-> pack.id, index_num |-> i, pack_num |-> j,
                                                    pi |-> fp.pi, used_ids |-> pr.used_ids,
                                                    left |-> fp.used_ids])]
             pr2 == IF d \in RepackReasons
                    THEN [pr1 EXCEPT !.repack_candidates = Append(@, [pi |-> fp.pi, reason |-> d, index_num |-> i, pack_num |-> j])]
                    ELSE set_todo(pr1, i, j, d, fp.pi)
         IN decide_packs_loop(pr2, Tail(pos), keep_pack, keep_delete, repack_cacheable_only, repack_uncompressed)

\* fault: the unmarked packs are processed before the marked ones
decide_packs_unmarked_first(pr, keep_pack, keep_delete, repack_cacheable_only, repack_uncompressed) ==
    decide_packs_loop(pr, PackPositions(pr.index_files, FALSE) \o PackPositions(pr.index_files, TRUE),
                      keep_pack, keep_delete, repack_cacheable_only, repack_uncompressed)

\* Pruner::decide_packs
decide_packs(pr, keep_pack, keep_delete, repack_cacheable_only, repack_uncompressed) ==
    decide_packs_loop(pr, PackPositions(pr.index_files, TRUE) \o PackPositions(pr.index_files, FALSE),
                      keep_pack, keep_delete, repack_cacheable_only, repack_uncompressed)

-----------------------------------------------------------------------------
(* prune: decide_repack *)

\* u64::MAX, the limit that stands for "unlimited". TLC's integers have 32 bits: the
\* value is the largest of those, far above every size of the model.
U64_MAX == 2147483647

\* LimitOption
Unlimited == [kind |-> "Unlimited", v |-> 0]
LimitSize(n) == [kind |-> "Size", v |-> n]
LimitPercentage(p) == [kind |-> "Percentage", v |-> p]

\* fault: --repack-uncompressed leaves the limit of unused space as it is given
max_unused_limit_as_given(repack_uncompressed, max_unused, st) ==
    CASE max_unused.kind = "Unlimited" -> U64_MAX
      [] max_unused.kind = "Size" -> max_unused.v
      [] OTHER -> (max_unused.v * st.used) \div (100 - max_unused.v)

\* the limit of unused data, in bytes
max_unused_limit(repack_uncompressed, max_unused, st) ==
    IF repack_uncompressed THEN 0
    ELSE CASE max_unused.kind = "Unlimited" -> U64_MAX
           [] max_unused.kind = "Size" -> max_unused.v
           [] OTHER -> (max_unused.v * st.used) \div (100 - max_unused.v)

\* the limit of data to repack, in bytes
max_repack_limit(max_repack, st) ==
    CASE max_repack.kind = "Unlimited" -> U64_MAX
      [] max_repack.kind = "Size" -> max_repack.v
      [] OTHER -> max_repack.v * SizeStats_total(st)

\* BlobType's order: tree packs come first
BlobTypeRank(tpe) == IF tpe = "Tree" THEN 0 ELSE 1

\* Ord for PackInfo: a is strictly before b
PackInfo_less(a, b) ==
    \/ BlobTypeRank(a.blob_type) < BlobTypeRank(b.blob_type)
    \/ /\ a.blob_type = b.blob_type
       /\ b.unused_size * a.used_size < a.unused_size * b.used_size

\* insertion of a candidate into a sorted list, behind the candidates equal to it
RECURSIVE InsertSorted(_, _)
InsertSorted(c, sorted) ==
    IF sorted = <<>> THEN <<c>>
    ELSE IF PackInfo_less(c.pi, Head(sorted).pi) THEN <<c>> \o sorted
    ELSE <<Head(sorted)>> \o InsertSorted(c, Tail(sorted))

\* repack_candidates.sort_unstable_by_key(|rc| rc.0)
RECURSIVE SortCandidates(_)
SortCandidates(cs) ==
    IF cs = <<>> THEN <<>>
    ELSE InsertSorted(cs[Len(cs)], SortCandidates(SubSeq(cs, 1, Len(cs) - 1)))

\* the first loop of decide_repack. rs: [pr, resize_packs, do_repack, repack_size],
\* the last three keyed by blob type. rs.pr.turns keeps, for every candidate in
\* turn, what the loop saw and did: the size to repack and unused_after_prune
\* before the candidate, and "Keep", "Resize" (pushed to resize_packs) or "Repack".
RECURSIVE decide_repack_loop(_, _, _, _, _)
decide_repack_loop(rs, cs, max_repack, max_unused, no_resize) ==
    IF cs = <<>> THEN rs
    ELSE LET c == Head(cs)
             tpe == c.pi.blob_type
             total_repack_size == rs.repack_size["Tree"] + rs.repack_size["Data"]
             keep == \/ total_repack_size + c.pi.used_size >= max_repack
                     \/ /\ SizeStats_unused_after_prune(rs.pr.stats) < max_unused
                        /\ c.reason = "PartlyUsed"
                        /\ tpe = "Data"
                     \/ c.reason = "SizeMismatch" /\ no_resize
             turn == [id |-> rs.pr.index_files[c.index_num].packs[c.pack_num].id,
                      index_num |-> c.index_num, pack_num |-> c.pack_num,
                      pi |-> c.pi, reason |-> c.reason, to_do |-> "Undecided",
                      total_repack_size |-> total_repack_size,
                      unused_after_prune |-> SizeStats_unused_after_prune(rs.pr.stats),
                      did |-> IF keep THEN "Keep" ELSE IF c.reason = "SizeMismatch" THEN "Resize" ELSE "Repack"]
             rs1 == IF keep
                    THEN [rs EXCEPT !.pr = set_todo(@, c.index_num, c.pack_num, "Keep", c.pi)]
                    ELSE IF c.reason = "SizeMismatch"
                    THEN [rs EXCEPT !.resize_packs[tpe] = Append(@, c),
                                    !.repack_size[tpe] = @ + c.pi.used_size]
                    ELSE [rs EXCEPT !.pr = set_todo(@, c.index_num, c.pack_num, "Repack", c.pi),
                                    !.repack_size[tpe] = @ + c.pi.used_size,
                                    !.do_repack[tpe] = TRUE]
         IN decide_repack_loop([rs1 EXCEPT !.pr.turns = Append(@, turn)],
                               Tail(cs), max_repack, max_unused, no_resize)

\* the second loop: the packs that only need resizing, type by type
RECURSIVE decide_resize(_, _, _)
decide_resize(pr, cs, todo) ==
    IF cs = <<>> THEN pr
    ELSE decide_resize(set_todo(pr, Head(cs).index_num, Head(cs).pack_num, todo, Head(cs).pi),
                       Tail(cs), todo)

\* Pruner::decide_repack
decide_repack(pr, max_repack_opt, max_unused_opt, repack_uncompressed, no_resize) ==
    LET max_unused == max_unused_limit(repack_uncompressed, max_unused_opt, pr.stats)
        max_repack == max_repack_limit(max_repack_opt, pr.stats)
        rs0 == [pr |-> [pr EXCEPT !.repack_candidates = <<>>,
                                  !.limits = [max_repack |-> max_repack, max_unused |-> max_unused]],
                resize_packs |-> [t \in {"Tree", "Data"} |-> <<>>],
                do_repack |-> [t \in {"Tree", "Data"} |-> FALSE],
                repack_size |-> [t \in {"Tree", "Data"} |-> 0]]
        rs == decide_repack_loop(rs0, SortCandidates(pr.repack_candidates), max_repack, max_unused, no_resize)
        todo(t) == IF rs.do_repack[t] \/ rs.repack_size[t] > PackSizer_pack_size(t)
                   THEN "Repack" ELSE "Keep"
        prT == decide_resize(rs.pr, rs.resize_packs["Tree"], todo("Tree"))
        prD == decide_resize(prT, rs.resize_packs["Data"], todo("Data"))
        final(turn) == prD.index_files[turn.index_num].packs[turn.pack_num].to_do
    IN [prD EXCEPT !.turns = [k \in DOMAIN prD.turns |->
                                 [prD.turns[k] EXCEPT !.to_do = final(prD.turns[k])]]]

-----------------------------------------------------------------------------
(* prune: check_existing_packs, filter_index_files *)

\* all packs of the Pruner's index files, in order
AllPacks(index_files) ==
    Flatten([i \in 1..Len(index_files) |-> index_files[i].packs])

\* Pruner::check_existing_packs over the packs in order: err, or the existing_packs
\* and used_ids it leaves
RECURSIVE check_existing_loop(_, _, _)
check_existing_loop(packs, existing_packs, used_ids) ==
    IF packs = <<>> THEN [err |-> FALSE, existing_packs |-> existing_packs, used_ids |-> used_ids]
    ELSE LET pack == Head(packs)
             found == pack.id \in DOMAIN existing_packs
             size_good == found /\ existing_packs[pack.id] = pack.size
             rest == [id \in DOMAIN existing_packs \ {pack.id} |-> existing_packs[id]]
             ids == {pack.blobs[k].id : k \in 1..Len(pack.blobs)}
         IN CASE pack.to_do = "Undecided" -> [err |-> TRUE, existing_packs |-> rest, used_ids |-> used_ids]
              [] pack.to_do \in {"Keep", "Recover"} ->
                    IF size_good
                    THEN check_existing_loop(Tail(packs), rest,
                                             [id \in DOMAIN used_ids \ ids |-> used_ids[id]])
                    ELSE [err |-> TRUE, existing_packs |-> rest, used_ids |-> used_ids]
              [] pack.to_do = "Repack" ->
                    IF size_good
                    THEN check_existing_loop(Tail(packs), rest, used_ids)
                    ELSE [err |-> TRUE, existing_packs |-> rest, used_ids |-> used_ids]
              [] OTHER -> check_existing_loop(Tail(packs), rest, used_ids)

\* fault: the result of the cross-check is not looked at
check_existing_packs_lenient(pr) ==
    [check_existing_loop(AllPacks(pr.index_files), pr.existing_packs, pr.used_ids) EXCEPT !.err = FALSE]

check_existing_packs(pr) ==
    check_existing_loop(AllPacks(pr.index_files), pr.existing_packs, pr.used_ids)

\* the length below which filter_index_files rebuilds an index file. The code's
\* value is 10_000; it is scaled down here so that index files on both sides of
\* it occur.
MIN_INDEX_LEN == 4

\* "index must be processed if it has been modified or if any pack is not kept"
must_modify(index, instant_delete) ==
    \/ index.modified
    \/ \E j \in 1..Len(index.packs) :
          /\ index.packs[j].to_do # "Keep"
          /\ (instant_delete \/ index.packs[j].to_do # "KeepMarked")

\* fault: a single index file that is only too small is rebuilt as well
filter_index_files_rebuilds(index_files, instant_delete) ==
    SelectSeq(index_files,
              LAMBDA index : must_modify(index, instant_delete) \/ PruneIndex_len(index) < MIN_INDEX_LEN)

\* Pruner::filter_index_files: the index files left to process
filter_index_files(index_files, instant_delete) ==
    LET any_must_modify == \E i \in 1..Len(index_files) : must_modify(index_files[i], instant_delete)
        retained == SelectSeq(index_files,
                              LAMBDA index : must_modify(index, instant_delete)
                                             \/ PruneIndex_len(index) < MIN_INDEX_LEN)
    IN IF ~any_must_modify /\ Len(retained) = 1 THEN <<>> ELSE retained

\* Pruner::repack_packs
repack_packs(index_files) ==
    {p.id : p \in {q \in Range(AllPacks(index_files)) : q.to_do = "Repack"}}

-----------------------------------------------------------------------------
(* prune: execute, up to the call of do_prune *)

\* the Pruner as Pruner::new leaves it, with used_ids counted
Pruner_init(used, existing_packs, files, time) ==
    LET index_files == Pruner_new(files)
    IN [time |-> time,
        used_ids |-> count_used_blobs(index_files, [id \in used |-> 0]),
        existing_packs |-> existing_packs,
        repack_candidates |-> <<>>,
        index_files |-> index_files,
        stats |-> SizeStats_zero,
        packs_repack |-> 0,
        limits |-> [max_repack |-> 0, max_unused |-> 0],
        turns |-> <<>>,
        infos |-> <<>>]

\* Opts::repack_cacheable_only.unwrap_or_else(|| repo.config.is_hot == Some(true));
\* the option is "default", TRUE or FALSE
repack_cacheable_only(opts, cfg) ==
    IF opts.repack_cacheable_only = "default" THEN cfg.is_hot ELSE opts.repack_cacheable_only

\* execute, from filter_index_files on: the plan that do_prune carries out
execute_checked(pr2, ce, used, opts) ==
    IF ce.err THEN [err |-> "pack check", decided |-> AllPacks(pr2.index_files)]
    ELSE [err |-> "",
          pr |-> [pr2 EXCEPT !.existing_packs = ce.existing_packs,
                             !.used_ids = ce.used_ids,
                             !.index_files = filter_index_files(@, opts.instant_delete)],
          used |-> used,
          counters |-> pr2.used_ids,
          indexes |-> [i \in 1..Len(pr2.index_files) |->
                          [id |-> pr2.index_files[i].id, modified |-> pr2.index_files[i].modified,
                           packs |-> Len(pr2.index_files[i].packs)]],
          decided |-> AllPacks(pr2.index_files)]

\* execute, from check_existing_packs on
execute_repacked(pr2, used, opts) ==
    execute_checked(pr2, check_existing_packs(pr2), used, opts)

\* execute, from decide_repack on
execute_decided(pr1, used, opts) ==
    execute_repacked(decide_repack(pr1, opts.max_repack, opts.max_unused,
                                   opts.repack_uncompressed, opts.no_resize),
                     used, opts)

\* execute, from Pruner::new on
execute_pruner(pr0, used, cfg, opts) ==
    IF ~check(pr0.used_ids) THEN [err |-> "missing blobs", decided |-> <<>>]
    ELSE execute_decided(decide_packs(pr0, opts.keep_pack, opts.keep_delete,
                                      repack_cacheable_only(opts, cfg), opts.repack_uncompressed),
                         used, opts)

\* execute, from the index files read on
execute_used(used, files, pk, cfg, opts, time) ==
    IF used.err THEN [err |-> "tree not found", decided |-> <<>>]
    ELSE execute_pruner(Pruner_init(used.ids, pk, files, time), used.ids, cfg, opts)

\* execute up to do_prune: the error, or the Pruner that do_prune carries out. The
\* index files arrive in the order `order`.
execute_plan(idx, pk, snaps, cfg, opts, ignore_snaps, order, time) ==
    IF cfg.version < 2 /\ opts.repack_uncompressed THEN [err |-> "v1 repo", decided |-> <<>>]
    ELSE execute_used(find_used_blobs(idx, pk, snaps, ignore_snaps),
                      [i \in 1..Len(order) |-> [id |-> order[i], index |-> idx[order[i]]]],
                      pk, cfg, opts, time)

-----------------------------------------------------------------------------
(* prune: do_prune, step by step. Every write to and remove from the store is a
   step of its own. *)

\* the number of blob entries at which the Indexer saves its index file. The
\* Indexer flushes at about 10_000 entries; scaled like MIN_INDEX_LEN.
INDEXER_MAX_COUNT == 4

Indexer_new == [packs |-> <<>>, packs_to_delete |-> <<>>, count |-> 0]

\* a list of index packs with one more. The Indexer does not fix the order of the
\* entries of an index file: the model keeps them in the order of the pack ids.
RECURSIVE InsertById(_, _)
InsertById(list, pack) ==
    IF list = <<>> THEN <<pack>>
    ELSE IF pack.id < Head(list).id THEN <<pack>> \o list
    ELSE <<Head(list)>> \o InsertById(Tail(list), pack)

\* Indexer::add
Indexer_add(ix, pack) ==
    [ix EXCEPT !.packs = InsertById(@, pack), !.count = @ + Len(pack.blobs)]

\* Indexer::add_remove
Indexer_add_remove(ix, pack) ==
    [ix EXCEPT !.packs_to_delete = InsertById(@, pack), !.count = @ + Len(pack.blobs)]

\* the Indexer has reached its size and saves its file before anything else is added
FlushPending == run.indexer.count >= INDEXER_MAX_COUNT

\* PrunePack::into_index_pack
into_index_pack(pack) == IndexPack(pack.id, pack.time, NoSize, pack.blobs)

\* fault: the pack keeps the time it had
into_index_pack_own_time(pack, time) == IndexPack(pack.id, pack.time, NoSize, pack.blobs)

\* PrunePack::into_index_pack_with_time
into_index_pack_with_time(pack, time) == IndexPack(pack.id, time, NoSize, pack.blobs)

\* fault: delete_pack drops the pack id
delete_pack_forgets(r, pack) == r

\* the closure delete_pack of do_prune
delete_pack(r, pack) ==
    IF pack.blob_type = "Data"
    THEN [r EXCEPT !.data_packs_remove = @ \cup {pack.id}]
    ELSE [r EXCEPT !.tree_packs_remove = @ \cup {pack.id}]

\* fault: every pack but a repacked one is handed to delete_pack
process_pack_deletes(r, pack) == delete_pack(r, pack)

\* fault: a KeepMarked pack is written back with the time of the run
process_pack_resets(r, pack) ==
    CASE pack.to_do = "Keep" ->
            [r EXCEPT !.indexer = Indexer_add(@, into_index_pack(pack))]
      [] pack.to_do \in {"MarkDelete", "KeepMarked"} ->
            IF r.opts.instant_delete THEN delete_pack(r, pack)
            ELSE [r EXCEPT !.indexer = Indexer_add_remove(@, into_index_pack_with_time(pack, r.time))]
      [] pack.to_do = "Recover" ->
            [r EXCEPT !.indexer = Indexer_add(@, into_index_pack_with_time(pack, r.time))]
      [] OTHER -> delete_pack(r, pack)

\* the match of do_prune on pack.to_do, for every decision but Repack
process_pack(r, pack) ==
    CASE pack.to_do = "Keep" ->
            [r EXCEPT !.indexer = Indexer_add(@, into_index_pack(pack))]
      [] pack.to_do = "MarkDelete" ->
            IF r.opts.instant_delete THEN delete_pack(r, pack)
            ELSE [r EXCEPT !.indexer = Indexer_add_remove(@, into_index_pack_with_time(pack, r.time))]
      [] pack.to_do = "KeepMarked" ->
            IF r.opts.instant_delete THEN delete_pack(r, pack)
            ELSE [r EXCEPT !.indexer = Indexer_add_remove(@, into_index_pack(pack))]
      [] pack.to_do = "Recover" ->
            [r EXCEPT !.indexer = Indexer_add(@, into_index_pack_with_time(pack, r.time))]
      [] OTHER -> delete_pack(r, pack)

\* the end of the Repack arm, after the loop over the blobs
repack_end(r, pack) ==
    IF r.opts.instant_delete THEN delete_pack(r, pack)
    ELSE [r EXCEPT !.indexer = Indexer_add_remove(@, into_index_pack_with_time(pack, r.time))]

\* Repacker::add / add_fast: the blob as it is written to the new pack. add_fast
\* copies the stored bytes; add encodes the blob again, compressed in a version 2
\* repository.
repacked_blob(blob, fast_repack, cfg) ==
    IF fast_repack THEN blob ELSE IndexBlob(blob.id, cfg.version >= 2)

\* the size of the blobs gathered in a Repacker's current pack
BufferSize(buf) == SumSeq([i \in 1..Len(buf) |-> buf[i].length])

\* the run between two steps: the phases of do_prune that have nothing (left) to do
\* are passed
RECURSIVE Settle(_)
Settle(r) ==
    CASE r.pc = "unindexed" /\ DOMAIN r.existing = {} ->
            Settle([r EXCEPT !.pc = "packs"])
      [] r.pc = "packs" /\ r.todo = {} /\ r.indexer.count < INDEXER_MAX_COUNT ->
            Settle([r EXCEPT !.pc = "finalize_tree"])
      [] r.pc = "finalize_tree" /\ r.repacker["Tree"] = <<>> ->
            Settle([r EXCEPT !.pc = "finalize_data"])
      [] r.pc = "finalize_data" /\ r.repacker["Data"] = <<>> ->
            Settle([r EXCEPT !.pc = "finalize_indexer"])
      [] r.pc = "finalize_indexer" /\ r.indexer.packs = <<>> /\ r.indexer.packs_to_delete = <<>> ->
            Settle([r EXCEPT !.pc = "remove_indexes"])
      [] r.pc = "remove_indexes" /\ r.indexes_remove = {} ->
            Settle([r EXCEPT !.pc = "remove_data"])
      [] r.pc = "remove_data" /\ r.data_packs_remove = {} ->
            Settle([r EXCEPT !.pc = "remove_tree"])
      [] r.pc = "remove_tree" /\ r.tree_packs_remove = {} ->
            [r EXCEPT !.pc = "idle", !.result = "ok"]
      [] OTHER -> r

DefaultOpts ==
    [dry_run |-> FALSE, max_repack |-> Unlimited, max_unused |-> LimitPercentage(5),
     keep_pack |-> 0, keep_delete |-> 23, instant_delete |-> FALSE, fast_repack |-> FALSE,
     repack_uncompressed |-> FALSE, repack_cacheable_only |-> "default", no_resize |-> FALSE]

\* no forget and no merge yet
NoCommand == [cmd |-> "none"]

\* no prune run yet
IdleRun ==
    [pc |-> "idle", result |-> "none", err |-> "", opts |-> DefaultOpts, ignore |-> {},
     time |-> 0, free |-> FALSE, used |-> {}, decided |-> <<>>, existing |-> <<>>, packs |-> <<>>,
     stats |-> SizeStats_zero, limits |-> [max_repack |-> 0, max_unused |-> 0], turns |-> <<>>,
     infos |-> <<>>, counters |-> <<>>, indexes |-> <<>>, selected |-> {},
     todo |-> {}, pos |-> <<>>, used_ids |-> {}, handed |-> <<>>, indexer |-> Indexer_new,
     repacker |-> [Tree |-> <<>>, Data |-> <<>>],
     indexes_remove |-> {}, data_packs_remove |-> {}, tree_packs_remove |-> {}]

Restrict(f, S) == [x \in DOMAIN f \cap S |-> f[x]]

StoreUnchanged == UNCHANGED <<indexFiles, packFiles, snapshots, config>>

\* do_prune as it starts, with the packs of the index files it rewrites
do_prune_start(pr, packs, base) ==
    Settle([base EXCEPT
              !.pc = "unindexed",
              !.existing = pr.existing_packs,
              !.packs = packs,
              !.todo = 1..Len(packs),
              !.pos = [k \in 1..Len(packs) |-> 1],
              !.used_ids = DOMAIN pr.used_ids,
              !.indexes_remove = {pr.index_files[i].id : i \in 1..Len(pr.index_files)}])

\* the run with what execute has found and decided: the used blobs, the decisions,
\* the size statistics, the limits and the turns of decide_repack, for every
\* pack the PackInfo of decide_packs with used_ids before and after from_pack,
\* the index files as Pruner::new left them, and those filter_index_files selects
Planned(plan, base) ==
    [base EXCEPT !.used = plan.used, !.decided = plan.decided, !.stats = plan.pr.stats,
                 !.limits = plan.pr.limits, !.turns = plan.pr.turns,
                 !.infos = plan.pr.infos, !.counters = plan.counters,
                 !.indexes = plan.indexes,
                 !.selected = {plan.pr.index_files[i].id : i \in 1..Len(plan.pr.index_files)}]

\* fault: do_prune starts in a dry run as well
execute_run_wet(plan, base) ==
    IF plan.err # "" THEN [base EXCEPT !.result = "err", !.err = plan.err, !.decided = plan.decided]
    ELSE do_prune_start(plan.pr, AllPacks(plan.pr.index_files), Planned(plan, base))

\* the end of execute: the error is returned, a dry run ends, do_prune starts
execute_run(plan, base) ==
    IF plan.err # "" THEN [base EXCEPT !.result = "err", !.err = plan.err, !.decided = plan.decided]
    ELSE IF base.opts.dry_run
    THEN [Planned(plan, base) EXCEPT !.result = "ok"]
    ELSE do_prune_start(plan.pr, AllPacks(plan.pr.index_files), Planned(plan, base))

\* execute: the index files arrive in the order `order`, the clock reads `clock`
PruneStart(opts, ignore_snaps, order, free) ==
    /\ run.pc = "idle"
    /\ runs > 0
    /\ run' = execute_run(execute_plan(indexFiles, packFiles, snapshots, config, opts,
                                        ignore_snaps, order, clock),
                           [IdleRun EXCEPT !.opts = opts, !.ignore = ignore_snaps,
                                           !.time = clock, !.free = free])
    /\ start' = [indexFiles |-> indexFiles, packFiles |-> packFiles, snapshots |-> snapshots]
    /\ prev' = [run |-> run, start |-> start]
    /\ runs' = runs - 1
    /\ StoreUnchanged
    /\ UNCHANGED <<clock, nextId, fg>>

\* "removing unindexed packs...": one remove of delete_list
UnindexedRemove(id) ==
    /\ run.pc = "unindexed"
    /\ run.opts.instant_delete
    /\ id \in DOMAIN run.existing
    /\ packFiles' = Restrict(packFiles, DOMAIN packFiles \ {id})
    /\ run' = Settle([run EXCEPT !.existing = Restrict(@, DOMAIN @ \ {id})])
    /\ UNCHANGED <<indexFiles, snapshots, config, clock, nextId, start, prev, runs, fg>>

\* "marking not needed unindexed pack files for deletion...": the whole loop; now
\* is what Local::now() returns in it
RECURSIVE mark_unindexed(_, _, _)
mark_unindexed(ix, existing, now) ==
    IF DOMAIN existing = {} THEN ix
    ELSE LET id == CHOOSE x \in DOMAIN existing : TRUE IN
         mark_unindexed(Indexer_add_remove(ix, IndexPack(id, now, existing[id], <<>>)),
                        Restrict(existing, DOMAIN existing \ {id}), now)

UnindexedMark(now) ==
    /\ run.pc = "unindexed"
    /\ ~run.opts.instant_delete
    /\ DOMAIN run.existing # {}
    /\ clock' = now
    /\ run' = Settle([run EXCEPT !.indexer = mark_unindexed(@, run.existing, now),
                                 !.existing = <<>>])
    /\ StoreUnchanged
    /\ UNCHANGED <<nextId, start, prev, runs, fg>>

\* Indexer::save, when the Indexer has reached its size: the index file is written
IndexerSave ==
    /\ run.pc # "idle"
    /\ FlushPending
    /\ indexFiles' = indexFiles @@ (nextId :> [packs |-> run.indexer.packs,
                                               packs_to_delete |-> run.indexer.packs_to_delete])
    /\ nextId' = nextId + 1
    /\ run' = Settle([run EXCEPT !.indexer = Indexer_new])
    /\ UNCHANGED <<packFiles, snapshots, config, clock, start, prev, runs, fg>>

\* the tasks of packs.into_par_iter().try_for_each: the model follows a task to its
\* end before it takes the next, and takes them in the order of the index files, or
\* (run.free) it takes a step of any task that has not ended: the tasks run in
\* parallel, and what they share is behind a lock
Scheduled(k) ==
    \/ run.free
    \/ /\ \A j \in run.todo \ {k} : run.pos[j] = 1
       /\ \A j \in run.todo : k <= j

\* one task of packs.into_par_iter().try_for_each, for a pack that is not repacked
ProcessPack(k) ==
    /\ run.pc = "packs"
    /\ ~FlushPending
    /\ k \in run.todo
    /\ Scheduled(k)
    /\ run.packs[k].to_do # "Repack"
    /\ run' = Settle([process_pack(run, run.packs[k]) EXCEPT !.todo = @ \ {k}])
    /\ StoreUnchanged
    /\ UNCHANGED <<clock, nextId, start, prev, runs, fg>>

\* fault: the Repack arm looks the blob up and leaves it in used_ids
take_used_leaves(used_ids, id) == used_ids

\* used_ids.lock().unwrap().remove(&blob.id): used_ids without the blob
take_used(used_ids, id) == used_ids \ {id}

\* the Repack arm, one blob: used_ids.remove(&blob.id), and for a blob still in
\* used_ids, repacker.add. A Repacker whose pack has reached the target size
\* writes the pack and hands it to the Indexer. run.handed lists the blobs handed
\* to a Repacker, each with the pack it was read from.
RepackBlob(k) ==
    /\ run.pc = "packs"
    /\ ~FlushPending
    /\ k \in run.todo
    /\ run.packs[k].to_do = "Repack"
    /\ Scheduled(k)
    /\ run.pos[k] <= Len(run.packs[k].blobs)
    /\ LET blob == run.packs[k].blobs[run.pos[k]]
           r0 == [run EXCEPT !.pos[k] = @ + 1, !.used_ids = take_used(@, blob.id)]
           r1 == [r0 EXCEPT !.handed = Append(@, [pack |-> run.packs[k].id, id |-> blob.id])]
           buf == Append(run.repacker[blob.tpe], repacked_blob(blob, run.opts.fast_repack, config))
       IN IF blob.id \notin run.used_ids
          THEN run' = r0 /\ UNCHANGED <<packFiles, nextId>>
          ELSE IF BufferSize(buf) < PackSizer_pack_size(blob.tpe)
          THEN run' = [r1 EXCEPT !.repacker[blob.tpe] = buf] /\ UNCHANGED <<packFiles, nextId>>
          ELSE /\ packFiles' = packFiles @@ (nextId :> PackHeaderRef_pack_size(buf))
               /\ nextId' = nextId + 1
               /\ run' = [r1 EXCEPT !.repacker[blob.tpe] = <<>>,
                                    !.indexer = Indexer_add(@, IndexPack(nextId, clock, NoSize, buf))]
    /\ UNCHANGED <<indexFiles, snapshots, config, clock, start, prev, runs, fg>>

\* the Repack arm after its loop: the old pack is deleted or marked
RepackEnd(k) ==
    /\ run.pc = "packs"
    /\ ~FlushPending
    /\ k \in run.todo
    /\ run.packs[k].to_do = "Repack"
    /\ run.pos[k] > Len(run.packs[k].blobs)
    /\ run' = Settle([repack_end(run, run.packs[k]) EXCEPT !.todo = @ \ {k}])
    /\ StoreUnchanged
    /\ UNCHANGED <<clock, nextId, start, prev, runs, fg>>

\* tree_repacker.finalize(), data_repacker.finalize(): the pack in progress is
\* written and handed to the Indexer
FinalizeRepacker(tpe) ==
    /\ run.pc = (IF tpe = "Tree" THEN "finalize_tree" ELSE "finalize_data")
    /\ ~FlushPending
    /\ run.repacker[tpe] # <<>>
    /\ packFiles' = packFiles @@ (nextId :> PackHeaderRef_pack_size(run.repacker[tpe]))
    /\ nextId' = nextId + 1
    /\ run' = Settle([run EXCEPT !.repacker[tpe] = <<>>,
                                 !.indexer = Indexer_add(@, IndexPack(nextId, clock, NoSize, run.repacker[tpe])),
                                 !.pc = IF tpe = "Tree" THEN "finalize_data" ELSE "finalize_indexer"])
    /\ UNCHANGED <<indexFiles, snapshots, config, clock, start, prev, runs, fg>>

\* indexer.finalize(): the last index file is written
FinalizeIndexer ==
    /\ run.pc = "finalize_indexer"
    /\ ~FlushPending
    /\ indexFiles' = indexFiles @@ (nextId :> [packs |-> run.indexer.packs,
                                               packs_to_delete |-> run.indexer.packs_to_delete])
    /\ nextId' = nextId + 1
    /\ run' = Settle([run EXCEPT !.indexer = Indexer_new, !.pc = "remove_indexes"])
    /\ UNCHANGED <<packFiles, snapshots, config, clock, start, prev, runs, fg>>

\* fault: the old index files are removed while the packs are processed
RemoveIndex_AnyTime(id) ==
    /\ run.pc \in {"packs", "finalize_tree", "finalize_data", "finalize_indexer", "remove_indexes"}
    /\ id \in run.indexes_remove
    /\ indexFiles' = Restrict(indexFiles, DOMAIN indexFiles \ {id})
    /\ run' = Settle([run EXCEPT !.indexes_remove = @ \ {id}])
    /\ UNCHANGED <<packFiles, snapshots, config, clock, nextId, start, prev, runs, fg>>

\* "removing old index files...": one remove of delete_list
RemoveIndex(id) ==
    /\ run.pc = "remove_indexes"
    /\ id \in run.indexes_remove
    /\ indexFiles' = Restrict(indexFiles, DOMAIN indexFiles \ {id})
    /\ run' = Settle([run EXCEPT !.indexes_remove = @ \ {id}])
    /\ UNCHANGED <<packFiles, snapshots, config, clock, nextId, start, prev, runs, fg>>

\* fault: a pack is removed as soon as delete_pack has its id
RemovePack_AnyTime(id) ==
    /\ run.pc # "idle"
    /\ id \in (run.data_packs_remove \cup run.tree_packs_remove) \cap DOMAIN packFiles
    /\ packFiles' = Restrict(packFiles, DOMAIN packFiles \ {id})
    /\ run' = Settle([run EXCEPT !.data_packs_remove = @ \ {id}, !.tree_packs_remove = @ \ {id}])
    /\ UNCHANGED <<indexFiles, snapshots, config, clock, nextId, start, prev, runs, fg>>

\* "removing old data packs...", "removing old tree packs...": one remove of
\* delete_list. The remove of a file that is not in the store fails, and the run
\* ends with that error.
RemovePack(id) ==
    /\ \/ run.pc = "remove_data" /\ id \in run.data_packs_remove
       \/ run.pc = "remove_tree" /\ id \in run.tree_packs_remove
    /\ IF id \in DOMAIN packFiles
       THEN /\ packFiles' = Restrict(packFiles, DOMAIN packFiles \ {id})
            /\ run' = Settle([run EXCEPT !.data_packs_remove = @ \ {id},
                                         !.tree_packs_remove = @ \ {id}])
       ELSE /\ packFiles' = packFiles
            /\ run' = [run EXCEPT !.pc = "idle", !.result = "err", !.err = "remove"]
    /\ UNCHANGED <<indexFiles, snapshots, config, clock, nextId, start, prev, runs, fg>>

\* time passes between two commands
Tick ==
    /\ run.pc = "idle"
    /\ clock < MaxTime
    /\ clock' = clock + 1
    /\ StoreUnchanged
    /\ UNCHANGED <<nextId, run, start, prev, runs, fg>>

-----------------------------------------------------------------------------
(* The repositories and the options the prune runs start from *)

\* DeleteOption of a snapshot
NotSet == [kind |-> "NotSet", t |-> 0]
Never == [kind |-> "Never", t |-> 0]
After(t) == [kind |-> "After", t |-> t]

\* SnapshotFile: id, time, delete, tree, the group key (hostname, label, paths), tags
Snapshot(id, time, delete, tree, group, tags) ==
    [id |-> id, time |-> time, delete |-> delete, tree |-> tree, group |-> group, tags |-> tags]

\* the two snapshots of the prune runs: S1 holds file D1 and the directory T2, S2
\* is the later backup with D1 deleted
PruneSnapshots ==
    {Snapshot("S1", 0, NotSet, "T1", "g", {}), Snapshot("S2", 0, NotSet, "T2", "g", {})}

\* the packs of the initial repositories, by pack id: their index entries. Packs 6
\* and 7 are in the repositories of the repack plans and of the parallel runs
\* only, pack 8 in those of the parallel runs.
Blobs(ids, comp) == [i \in 1..Len(ids) |-> IndexBlob(ids[i], comp)]

InitPack(id) ==
    CASE id = 1 -> IndexPack(1, 0, NoSize, Blobs(<<"T1", "T2">>, TRUE))
      [] id = 2 -> IndexPack(2, NoTime, NoSize, Blobs(<<"T2">>, TRUE))
      [] id = 3 -> IndexPack(3, 0, NoSize, Blobs(<<"D1", "D2">>, TRUE))
      [] id = 4 -> IndexPack(4, 0, NoSize, Blobs(<<"D2", "D3">>, FALSE))
      [] id = 5 -> IndexPack(5, 0, NoSize, Blobs(<<"D3">>, TRUE))
      [] id = 6 -> IndexPack(6, 0, NoSize, Blobs(<<"D1">>, FALSE))
      [] id = 7 -> IndexPack(7, 0, NoSize, Blobs(<<"D1", "D3">>, TRUE))
      [] OTHER  -> IndexPack(8, 0, NoSize, Blobs(<<"T4">>, TRUE))

InitPackIds == 1..5

\* where a pack is listed: l1, l2: live in the first, second index file; t1, t2:
\* tombstoned there; the empty set: in no index file
Placements ==
    {{"l1"}, {"t1"}} \X {{}, {"l2"}} \X {{"l1"}, {"t2"}, {"l1", "t2"}, {"l1", "l2"}}
        \X {{"l2"}, {"t2"}} \X {{}, {"l2"}, {"t1", "t2"}}

ListOf(place, tag) ==
    LET ids == {id \in DOMAIN place : tag \in place[id]}
        RECURSIVE ById(_)
        ById(S) == IF S = {} THEN <<>>
                   ELSE LET m == CHOOSE x \in S : \A y \in S : x <= y
                        IN <<InitPack(m)>> \o ById(S \ {m})
    IN ById(ids)

\* the index files of a placement; an index file that lists nothing is not there
InitIndexFiles(place) ==
    LET f1 == [packs |-> ListOf(place, "l1"), packs_to_delete |-> ListOf(place, "t1")]
        f2 == [packs |-> ListOf(place, "l2"), packs_to_delete |-> ListOf(place, "t2")]
        e(f) == f.packs = <<>> /\ f.packs_to_delete = <<>>
    IN [i \in (IF e(f1) THEN {} ELSE {10}) \cup (IF e(f2) THEN {} ELSE {11}) |->
            IF i = 10 THEN f1 ELSE f2]

InitPackFiles(files) ==
    [id \in {i \in DOMAIN files : files[i] # "missing"} |->
        IF files[id] = "ok" THEN IndexPack_pack_size(InitPack(id))
        ELSE IndexPack_pack_size(InitPack(id)) + 1]

\* what the store holds of a pack: its file ("ok"), nothing ("missing"), or a file
\* of another size ("badsize")
HealthyFiles(place) ==
    [id \in DOMAIN place |-> IF place[id] = {} THEN "missing" ELSE "ok"]

\* the repositories in good order, and those with the file of pack 5 that no index
\* file lists: an unindexed pack
HealthyRepos ==
    {[place |-> pl, files |-> HealthyFiles(pl), version |-> 2] : pl \in Placements}
        \cup {[place |-> pl, files |-> [HealthyFiles(pl) EXCEPT ![5] = "ok"], version |-> 2] :
                 pl \in {x \in Placements : x[5] = {}}}

BasePlacement == <<{"l1"}, {}, {"l1"}, {"l2"}, {}>>

\* the repositories out of order: the file of a live or of a tombstoned pack is not
\* there or has another size, the pack of a used blob is in no index file, the
\* pack of the trees cannot be read; and the repository of version 1
DamagedRepos ==
    {[place |-> pl, files |-> [HealthyFiles(pl) EXCEPT ![3] = f], version |-> 2] :
        pl \in {BasePlacement, [BasePlacement EXCEPT ![3] = {"t2"}]}, f \in {"missing", "badsize"}}
        \cup {[place |-> [BasePlacement EXCEPT ![3] = {}], files |-> HealthyFiles([BasePlacement EXCEPT ![3] = {}]),
                 version |-> 2],
                [place |-> BasePlacement, files |-> [HealthyFiles(BasePlacement) EXCEPT ![1] = "missing"],
                 version |-> 2],
                [place |-> BasePlacement, files |-> HealthyFiles(BasePlacement), version |-> 1]}

\* the repositories of the model
PruneRepos == HealthyRepos \cup DamagedRepos

\* the options of the runs: with keep_pack 2 every live pack is too young, and the
\* repack options are left at their defaults
OptsSet ==
    {[DefaultOpts EXCEPT !.dry_run = o[1], !.instant_delete = o[2], !.keep_pack = o[3],
                         !.keep_delete = o[4], !.max_unused = o[5], !.repack_uncompressed = o[6]] :
        o \in {x \in BOOLEAN \X BOOLEAN \X {0, 2} \X {0, 2}
                       \X {LimitPercentage(5), LimitSize(0)} \X BOOLEAN :
                  /\ x[3] = 2 => x[5] = LimitPercentage(5) /\ ~x[6]
                  /\ x[6] => x[5] = LimitPercentage(5)}}

IgnoreSets == {{}, {"S1"}}

InitPrune ==
    /\ \E rp \in PruneRepos :
          /\ indexFiles = InitIndexFiles(rp.place)
          /\ packFiles = InitPackFiles(rp.files)
          /\ config = [version |-> rp.version, is_hot |-> FALSE]
    /\ snapshots = PruneSnapshots
    /\ clock = 1
    /\ nextId = 20
    /\ run = IdleRun
    /\ start = [indexFiles |-> indexFiles, packFiles |-> packFiles, snapshots |-> snapshots]
    /\ prev = [run |-> run, start |-> start]
    /\ runs = 1
    /\ fg = NoCommand

NextPrune ==
    \/ \E opts \in OptsSet, ig \in IgnoreSets, order \in Perms(DOMAIN indexFiles) :
          PruneStart(opts, ig, order, FALSE)
    \/ \E id \in DOMAIN packFiles : UnindexedRemove(id)
    \/ \E now \in clock..Min(clock + 1, MaxTime) : UnindexedMark(now)
    \/ IndexerSave
    \/ \E k \in run.todo : ProcessPack(k)
    \/ \E k \in run.todo : RepackBlob(k)
    \/ \E k \in run.todo : RepackEnd(k)
    \/ \E tpe \in {"Tree", "Data"} : FinalizeRepacker(tpe)
    \/ FinalizeIndexer
    \/ \E id \in DOMAIN indexFiles : RemoveIndex(id)
    \/ \E id \in run.data_packs_remove \cup run.tree_packs_remove : RemovePack(id)

SpecPrune == InitPrune /\ [][NextPrune]_vars

-----------------------------------------------------------------------------
(* Prune runs one after the other, with time passing between them *)

\* the repositories the sequences of runs start from
TwoRunRepos ==
    {rp \in HealthyRepos :
        /\ rp.place[1] = {"l1"} /\ rp.place[2] = {} /\ rp.place[3] = {"l1"}
        /\ rp.place[4] = {"l2"} /\ rp.place[5] \in {{}, {"l2"}}}

TwoRunOpts ==
    {[DefaultOpts EXCEPT !.instant_delete = o[1], !.keep_delete = o[2]] :
        o \in BOOLEAN \X {0, 2}}

InitTwo ==
    /\ \E rp \in TwoRunRepos :
          /\ indexFiles = InitIndexFiles(rp.place)
          /\ packFiles = InitPackFiles(rp.files)
          /\ config = [version |-> rp.version, is_hot |-> FALSE]
    /\ snapshots = PruneSnapshots
    /\ clock = 1
    /\ nextId = 20
    /\ run = IdleRun
    /\ start = [indexFiles |-> indexFiles, packFiles |-> packFiles, snapshots |-> snapshots]
    /\ prev = [run |-> run, start |-> start]
    /\ runs = MaxRuns
    /\ fg = NoCommand

NextTwo ==
    \/ \E opts \in TwoRunOpts, ig \in IgnoreSets, order \in Perms(DOMAIN indexFiles) :
          PruneStart(opts, ig, order, FALSE)
    \/ \E id \in DOMAIN packFiles : UnindexedRemove(id)
    \/ \E now \in clock..Min(clock + 1, MaxTime) : UnindexedMark(now)
    \/ IndexerSave
    \/ \E k \in run.todo : ProcessPack(k)
    \/ \E k \in run.todo : RepackBlob(k)
    \/ \E k \in run.todo : RepackEnd(k)
    \/ \E tpe \in {"Tree", "Data"} : FinalizeRepacker(tpe)
    \/ FinalizeIndexer
    \/ \E id \in DOMAIN indexFiles : RemoveIndex(id)
    \/ \E id \in run.data_packs_remove \cup run.tree_packs_remove : RemovePack(id)
    \/ Tick

SpecTwo == InitTwo /\ [][NextTwo]_vars

-----------------------------------------------------------------------------
(* forget: the calendar of the snapshot times *)

\* A time is a number of hours since 2021-01-01 00:00, local time.
IsLeap(y) == y % 4 = 0 /\ (y % 100 # 0 \/ y % 400 = 0)

DaysIn(y) == IF IsLeap(y) THEN 366 ELSE 365

\* the year and the day of the year (from 1) of the day number d counted from the
\* first day of year y
RECURSIVE YearDay(_, _)
YearDay(d, y) ==
    IF d < DaysIn(y) THEN [year |-> y, ordinal |-> d + 1] ELSE YearDay(d - DaysIn(y), y + 1)

\* DateTime::year, ordinal, hour
Year(t) == YearDay(t \div 24, 2021).year
Ordinal(t) == YearDay(t \div 24, 2021).ordinal
Hour(t) == t % 24

\* the days of the months before month m (from 1)
RECURSIVE DaysBefore(_, _)
DaysBefore(m, y) ==
    IF m = 1 THEN 0
    ELSE DaysBefore(m - 1, y)
           + (IF m - 1 = 2 THEN (IF IsLeap(y) THEN 29 ELSE 28)
              ELSE IF m - 1 \in {4, 6, 9, 11} THEN 30 ELSE 31)

\* DateTime::month (from 1) and month0
Month(t) == CHOOSE m \in 1..12 :
                /\ DaysBefore(m, Year(t)) < Ordinal(t)
                /\ m = 12 \/ Ordinal(t) <= DaysBefore(m + 1, Year(t))
Month0(t) == Month(t) - 1

\* the day of the week, 1 for Monday; 2021-01-01 is a Friday
Weekday(t) == (((t \div 24) + 4) % 7) + 1

\* the weekday of the first of January of t's year, and of the year before
Jan1Weekday(t) == ((Weekday(t) - 1 + 7 * 53 - (Ordinal(t) - 1)) % 7) + 1

\* the number of ISO weeks of a year that starts on weekday w
WeeksOfYear(w, leap) == IF w = 4 \/ (leap /\ w = 3) THEN 53 ELSE 52

\* DateTime::iso_week().week()
IsoWeek(t) ==
    LET w == (Ordinal(t) - Weekday(t) + 10) \div 7
        prevJan1 == ((Jan1Weekday(t) - 1 + 7 * 53 - DaysIn(Year(t) - 1)) % 7) + 1
    IN IF w < 1 THEN WeeksOfYear(prevJan1, IsLeap(Year(t) - 1))
       ELSE IF w > WeeksOfYear(Jan1Weekday(t), IsLeap(Year(t))) THEN 1
       ELSE w

-----------------------------------------------------------------------------
(* forget: KeepOptions *)

\* SnapshotFile::must_keep
must_keep(sn, now) ==
    \/ sn.delete.kind = "Never"
    \/ sn.delete.kind = "After" /\ sn.delete.t > now

\* SnapshotFile::must_delete
must_delete(sn, now) == sn.delete.kind = "After" /\ sn.delete.t < now

\* the buckets of KeepOptions::matches, in the order of keep_checks
Buckets == <<"last", "hourly", "daily", "weekly", "monthly", "quarter_yearly", "half_yearly", "yearly">>

\* KeepOptions::default()
KeepDefault ==
    [keep_tags |-> {}, keep_ids |-> {},
     keep |-> [b \in Range(Buckets) |-> 0],
     keep_within |-> [b \in Range(Buckets) |-> 0]]

\* always_false, equal_hour, equal_day, equal_week, equal_month, equal_quarter_year,
\* equal_half_year, equal_year
check_fun(b, sn1, sn2) ==
    LET t1 == sn1.time
        t2 == sn2.time
    IN CASE b = "last" -> FALSE
         [] b = "hourly" -> Year(t1) = Year(t2) /\ Ordinal(t1) = Ordinal(t2) /\ Hour(t1) = Hour(t2)
         [] b = "daily" -> Year(t1) = Year(t2) /\ Ordinal(t1) = Ordinal(t2)
         [] b = "weekly" -> Year(t1) = Year(t2) /\ IsoWeek(t1) = IsoWeek(t2)
         [] b = "monthly" -> Year(t1) = Year(t2) /\ Month(t1) = Month(t2)
         [] b = "quarter_yearly" -> Year(t1) = Year(t2) /\ Month0(t1) \div 3 = Month0(t2) \div 3
         [] b = "half_yearly" -> Year(t1) = Year(t2) /\ Month0(t1) \div 6 = Month0(t2) \div 6
         [] OTHER -> Year(t1) = Year(t2)

\* no snapshot before this one in the group
NoSnapshot == [id |-> "none"]

\* fault: the durations are compared with the time of the snapshot itself
RECURSIVE matches_loop_within_self(_, _, _, _, _, _, _)
matches_loop_within_self(i, keep, reason, sn, last, has_next, latest_time) ==
    IF i > Len(Buckets) THEN [keep |-> keep, reason |-> reason]
    ELSE LET b == Buckets[i]
             first == ~has_next \/ last = NoSnapshot \/ ~check_fun(b, sn, last)
             counted == first /\ keep.keep[b] # 0
             within == first /\ sn.time + keep.keep_within[b] > latest_time + keep.keep_within[b]
             keep1 == IF counted /\ keep.keep[b] > 0 THEN [keep EXCEPT !.keep[b] = @ - 1] ELSE keep
             reason1 == reason \o (IF counted THEN <<b>> ELSE <<>>)
                               \o (IF within THEN <<"within " \o b>> ELSE <<>>)
         IN matches_loop_within_self(i + 1, keep1, reason1, sn, last, has_next, latest_time)

\* fault: every snapshot begins a bucket
RECURSIVE matches_loop_no_bucket(_, _, _, _, _, _, _)
matches_loop_no_bucket(i, keep, reason, sn, last, has_next, latest_time) ==
    IF i > Len(Buckets) THEN [keep |-> keep, reason |-> reason]
    ELSE LET b == Buckets[i]
             counted == keep.keep[b] # 0
             within == sn.time + keep.keep_within[b] > latest_time
             keep1 == IF counted /\ keep.keep[b] > 0 THEN [keep EXCEPT !.keep[b] = @ - 1] ELSE keep
             reason1 == reason \o (IF counted THEN <<b>> ELSE <<>>)
                               \o (IF within THEN <<"within " \o b>> ELSE <<>>)
         IN matches_loop_no_bucket(i + 1, keep1, reason1, sn, last, has_next, latest_time)

\* fault: a positive counter is not decremented
RECURSIVE matches_loop_no_decrement(_, _, _, _, _, _, _)
matches_loop_no_decrement(i, keep, reason, sn, last, has_next, latest_time) ==
    IF i > Len(Buckets) THEN [keep |-> keep, reason |-> reason]
    ELSE LET b == Buckets[i]
             first == ~has_next \/ last = NoSnapshot \/ ~check_fun(b, sn, last)
             counted == first /\ keep.keep[b] # 0
             within == first /\ sn.time + keep.keep_within[b] > latest_time
             reason1 == reason \o (IF counted THEN <<b>> ELSE <<>>)
                               \o (IF within THEN <<"within " \o b>> ELSE <<>>)
         IN matches_loop_no_decrement(i + 1, keep, reason1, sn, last, has_next, latest_time)

\* the loop of KeepOptions::matches over keep_checks, from bucket i on: the
\* reasons to keep and the counters it leaves
RECURSIVE matches_loop(_, _, _, _, _, _, _)
matches_loop(i, keep, reason, sn, last, has_next, latest_time) ==
    IF i > Len(Buckets) THEN [keep |-> keep, reason |-> reason]
    ELSE LET b == Buckets[i]
             first == ~has_next \/ last = NoSnapshot \/ ~check_fun(b, sn, last)
             counted == first /\ keep.keep[b] # 0
             within == first /\ sn.time + keep.keep_within[b] > latest_time
             keep1 == IF counted /\ keep.keep[b] > 0 THEN [keep EXCEPT !.keep[b] = @ - 1] ELSE keep
             reason1 == reason \o (IF counted THEN <<b>> ELSE <<>>)
                               \o (IF within THEN <<"within " \o b>> ELSE <<>>)
         IN matches_loop(i + 1, keep1, reason1, sn, last, has_next, latest_time)

\* KeepOptions::matches: [keep: the KeepOptions it leaves, reason: the reasons to
\* keep the snapshot; none: Option::None]
matches(keep, sn, last, has_next, latest_time) ==
    matches_loop(1, keep,
                 (IF sn.id \in keep.keep_ids THEN <<"id">> ELSE <<>>)
                     \o (IF keep.keep_tags # {} /\ \E tl \in keep.keep_tags : tl \subseteq sn.tags
                         THEN <<"tags">> ELSE <<>>),
                 sn, last, has_next, latest_time)

-----------------------------------------------------------------------------
(* forget: execute *)

\* fault: the id arguments are looked at before must_keep
forget_decide_ids_first(sn, group_keep, last, has_next, latest_time, now, ids, default_keep) ==
    IF ids # {} THEN [action |-> "remove", reason |-> <<"id argument">>, keep |-> group_keep]
    ELSE IF must_keep(sn, now) THEN [action |-> "keep", reason |-> <<"snapshot">>, keep |-> group_keep]
    ELSE IF must_delete(sn, now) THEN [action |-> "remove", reason |-> <<"snapshot">>, keep |-> group_keep]
    ELSE [action |-> (IF matches(group_keep, sn, last, has_next, latest_time).reason = <<>> /\ ~default_keep
                      THEN "remove" ELSE "keep"),
          reason |-> matches(group_keep, sn, last, has_next, latest_time).reason,
          keep |-> matches(group_keep, sn, last, has_next, latest_time).keep]

\* fault: default_keep is not looked at
forget_decide_no_default(sn, group_keep, last, has_next, latest_time, now, ids, default_keep) ==
    IF must_keep(sn, now) THEN [action |-> "keep", reason |-> <<"snapshot">>, keep |-> group_keep]
    ELSE IF must_delete(sn, now) THEN [action |-> "remove", reason |-> <<"snapshot">>, keep |-> group_keep]
    ELSE IF ids # {} THEN [action |-> "remove", reason |-> <<"id argument">>, keep |-> group_keep]
    ELSE [action |-> (IF matches(group_keep, sn, last, has_next, latest_time).reason = <<>>
                      THEN "remove" ELSE "keep"),
          reason |-> matches(group_keep, sn, last, has_next, latest_time).reason,
          keep |-> matches(group_keep, sn, last, has_next, latest_time).keep]

\* the decision on one snapshot of a group: action, reason, and the KeepOptions
\* the group goes on with
forget_decide(sn, group_keep, last, has_next, latest_time, now, ids, default_keep) ==
    IF must_keep(sn, now) THEN [action |-> "keep", reason |-> <<"snapshot">>, keep |-> group_keep]
    ELSE IF must_delete(sn, now) THEN [action |-> "remove", reason |-> <<"snapshot">>, keep |-> group_keep]
    ELSE IF ids # {} THEN [action |-> "remove", reason |-> <<"id argument">>, keep |-> group_keep]
    ELSE LET m == matches(group_keep, sn, last, has_next, latest_time)
         IN IF m.reason = <<>>
            THEN [action |-> (IF default_keep THEN "keep" ELSE "remove"), reason |-> <<>>, keep |-> m.keep]
            ELSE [action |-> "keep", reason |-> m.reason, keep |-> m.keep]

\* fault: every snapshot is decided with the counters the group started with
RECURSIVE forget_group_fresh_counters(_, _, _, _, _, _, _)
forget_group_fresh_counters(sns, i, group_keep, latest_time, now, ids, default_keep) ==
    IF i > Len(sns) THEN <<>>
    ELSE LET d == forget_decide(sns[i], group_keep, IF i = 1 THEN NoSnapshot ELSE sns[i - 1],
                                i < Len(sns), latest_time, now, ids, default_keep)
         IN <<[id |-> sns[i].id, action |-> d.action, reason |-> d.reason, counters |-> d.keep.keep]>>
                \o forget_group_fresh_counters(sns, i + 1, group_keep, latest_time, now, ids, default_keep)

\* the loop of execute over the sorted snapshots of a group, from the i-th on: the
\* rows of the table, each with the counters of group_keep after its decision
RECURSIVE forget_group(_, _, _, _, _, _, _)
forget_group(sns, i, group_keep, latest_time, now, ids, default_keep) ==
    IF i > Len(sns) THEN <<>>
    ELSE LET d == forget_decide(sns[i], group_keep, IF i = 1 THEN NoSnapshot ELSE sns[i - 1],
                                i < Len(sns), latest_time, now, ids, default_keep)
         IN <<[id |-> sns[i].id, action |-> d.action, reason |-> d.reason, counters |-> d.keep.keep]>>
                \o forget_group(sns, i + 1, d.keep, latest_time, now, ids, default_keep)

\* snapshots.sort_unstable_by(|sn1, sn2| sn1.cmp(sn2).reverse()): the orders the
\* sort may leave, the latest snapshot first
RECURSIVE SortedOrders(_)
SortedOrders(S) ==
    IF S = {} THEN {<<>>}
    ELSE UNION {{<<x>> \o p : p \in SortedOrders(S \ {x})} :
                   x \in {y \in S : \A z \in S : y.time >= z.time}}

\* the groups of execute: the one group of the snapshots named, or the groups of
\* all snapshots by host, label and paths
ForgetGroups(snaps, ids) ==
    IF ids # {} THEN {{sn \in snaps : sn.id \in ids}}
    ELSE {{sn \in snaps : sn.group = g} : g \in {sn.group : sn \in snaps}}

\* the rows of all groups, for a choice of the order the sort leaves in each
RECURSIVE ForgetRows(_, _, _, _)
ForgetRows(groups, keep, now, ids) ==
    IF groups = {} THEN {<<>>}
    ELSE LET g == CHOOSE x \in groups : TRUE
         IN {forget_group(p, 1, keep, p[1].time, now, ids, ids = {} /\ keep = KeepDefault) \o rest :
                p \in SortedOrders(g), rest \in ForgetRows(groups \ {g}, keep, now, ids)}

\* forget_snaps of a table
ForgetSnaps(rows) == {rows[i].id : i \in {k \in 1..Len(rows) : rows[k].action = "remove"}}

\* the action column of a table, by snapshot id
Decisions(rows) == {<<rows[i].id, rows[i].action>> : i \in 1..Len(rows)}

\* forget, without --prune: the snapshots of forget_snaps are removed unless
\* dry_run is set. `outcomes` keeps the decisions of the command for every order
\* in which the snapshots may have been supplied to the sort.
Forget(ids, keep, dry_run) ==
    /\ run.pc = "idle"
    /\ runs > 0
    /\ ids \subseteq {sn.id : sn \in snapshots}
    /\ \E rows \in ForgetRows(ForgetGroups(snapshots, ids), keep, clock, ids) :
          /\ fg' = [cmd |-> "forget", ids |-> ids, keep |-> keep, dry_run |-> dry_run, now |-> clock,
                    before |-> snapshots, rows |-> rows, forget_snaps |-> ForgetSnaps(rows),
                    outcomes |-> {Decisions(r) : r \in ForgetRows(ForgetGroups(snapshots, ids), keep, clock, ids)}]
          /\ snapshots' = IF dry_run THEN snapshots
                          ELSE {sn \in snapshots : sn.id \notin ForgetSnaps(rows)}
    /\ runs' = runs - 1
    /\ UNCHANGED <<indexFiles, packFiles, config, clock, nextId, run, start, prev>>

-----------------------------------------------------------------------------
(* merge *)

\* the tree blobs that IndexBackend::only_full_trees resolves: those of the live
\* packs
FullTrees(idx) ==
    {b.id : b \in UNION {Range(e.blobs) : e \in UNION {Range(idx[i].packs) : i \in DOMAIN idx}}}
        \cap TreeBlobs

\* merge_trees: the tree of the merged snapshot; a tree that is not one of the
\* merged ones is saved as a new blob
merge_trees(trees) ==
    IF Cardinality(trees) = 1 THEN CHOOSE t \in trees : TRUE ELSE "T3"

\* the snapshot that merge saves
MergedSnapshot(inputs) ==
    Snapshot("M1", CHOOSE t \in {sn.time : sn \in inputs} : \A sn \in inputs : sn.time <= t,
             NotSet, merge_trees({sn.tree : sn \in inputs}), "merged", {})

\* merge: the snapshots named (all, if none is named) are merged into a new
\* snapshot; with --delete, those that must not be kept at `now` are removed
Merge(ids, delete, now) ==
    /\ run.pc = "idle"
    /\ runs > 0
    /\ ids \subseteq {sn.id : sn \in snapshots}
    /\ snapshots # {}
    /\ LET inputs == IF ids = {} THEN snapshots ELSE {sn \in snapshots : sn.id \in ids}
           new == MergedSnapshot(inputs)
           readable == ReachTrees({sn.tree : sn \in inputs}, {}) \subseteq FullTrees(indexFiles)
           removed == IF delete THEN {sn \in inputs : ~must_keep(sn, now)} ELSE {}
       IN /\ fg' = [cmd |-> "merge", ids |-> ids, delete |-> delete, now |-> now,
                    before |-> snapshots, err |-> ~readable,
                    forget_snaps |-> IF readable THEN {sn.id : sn \in removed} ELSE {}]
          /\ IF ~readable
             THEN UNCHANGED <<indexFiles, packFiles, snapshots, nextId>>
             ELSE /\ snapshots' = (snapshots \cup {new}) \ removed
                  /\ IF new.tree \in FullTrees(indexFiles)
                     THEN UNCHANGED <<indexFiles, packFiles, nextId>>
                     ELSE /\ packFiles' = packFiles @@
                                  (nextId :> PackHeaderRef_pack_size(Blobs(<<new.tree>>, config.version >= 2)))
                          /\ indexFiles' = indexFiles @@
                                  (nextId + 1 :>
                                     [packs |-> <<IndexPack(nextId, clock, NoSize,
                                                            Blobs(<<new.tree>>, config.version >= 2))>>,
                                      packs_to_delete |-> <<>>])
                          /\ nextId' = nextId + 2
    /\ clock' = now
    /\ runs' = runs - 1
    /\ UNCHANGED <<config, run, start, prev>>

-----------------------------------------------------------------------------
(* The snapshots the forget and merge commands start from *)

\* the times of the snapshots: 2021-01-01 10:00 and 11:00, 2021-01-02 11:00,
\* 2021-02-01 16:00
SnapshotTimes == {10, 11, 35, 760}

\* the clock of the commands: 2021-02-03 08:00
CommandTimes == {800}

\* the delete options of a snapshot, the times of After on both sides of the clock
DeleteOptions == {NotSet, Never, After(799), After(801)}

\* the snapshots in the store: S3 is the latest, S2 is as old as S3 or older, S1 is
\* older
SnapshotSets ==
    {{Snapshot("S1", t[1], d[1], "T1", g, {"a"}),
      Snapshot("S2", t[2], d[2], "T2", "g", {}),
      Snapshot("S3", 760, d[3], "T2", "g", {})} :
        t \in {10, 11} \X {35, 760}, d \in DeleteOptions \X DeleteOptions \X DeleteOptions,
        g \in {"g", "h"}}

\* the KeepOptions of the commands
KeepSets ==
    {KeepDefault,
     [KeepDefault EXCEPT !.keep["last"] = 1],
     [KeepDefault EXCEPT !.keep["last"] = -1],
     [KeepDefault EXCEPT !.keep["daily"] = 1],
     [KeepDefault EXCEPT !.keep_within["last"] = 24],
     [KeepDefault EXCEPT !.keep_ids = {"S1"}],
     [KeepDefault EXCEPT !.keep_tags = {{"a"}}]}

IdSets == {{}, {"S1"}, {"S1", "S3"}}

InitForget ==
    /\ indexFiles = InitIndexFiles(BasePlacement)
    /\ packFiles = InitPackFiles(HealthyFiles(BasePlacement))
    /\ config = [version |-> 2, is_hot |-> FALSE]
    /\ snapshots \in SnapshotSets
    /\ clock \in CommandTimes
    /\ nextId = 20
    /\ run = IdleRun
    /\ start = [indexFiles |-> indexFiles, packFiles |-> packFiles, snapshots |-> snapshots]
    /\ prev = [run |-> run, start |-> start]
    /\ runs = 1
    /\ fg = NoCommand

NextForget ==
    \/ \E ids \in IdSets, keep \in KeepSets, dry_run \in BOOLEAN : Forget(ids, keep, dry_run)
    \/ \E ids \in IdSets, delete \in BOOLEAN, now \in {clock, clock + 2} : Merge(ids, delete, now)

SpecForget == InitForget /\ [][NextForget]_vars

-----------------------------------------------------------------------------
(* forget over groups of snapshots spread over the calendar *)

\* the clock of the commands: 2022-06-25 00:00
RetainClock == 13000

\* the snapshots in the store. Group g: R1 on 2021-01-01 (10:00 or 11:00), R2 at
\* the same time as R1 or on the next day, R3 on 2021-01-02, on 2021-02-01 or on
\* 2021-12-31, R4 on 2021-02-01 or on 2022-01-01. R5 and R6 are of group h, or R5
\* is of group g.
RetainSnapshotSets ==
    {{Snapshot("R1", t[1], NotSet, "T1", "g", {}),
      Snapshot("R2", t[2], d, "T1", "g", {}),
      Snapshot("R3", t[3], NotSet, "T2", "g", {}),
      Snapshot("R4", t[4], NotSet, "T2", "g", {}),
      Snapshot("R5", 35, NotSet, "T2", g, {}),
      Snapshot("R6", 760, NotSet, "T2", "h", {})} :
        t \in {10, 11} \X {11, 35} \X {35, 760, 8750} \X {760, 8770},
        d \in {NotSet, After(RetainClock - 1)},
        g \in {"g", "h"}}

\* the times t of the retention scenario: 2022-01-02 00:00, 2022-02-01 08:00,
\* 2022-05-16 00:00, 2022-06-24 23:00
ScenarioTimes == {8784, 9512, 12000, 12999}

\* the snapshots of the scenario: at t, a day, a week, 30 days and 365 days before
ScenarioSnapshots(t) ==
    {Snapshot("A0", t, NotSet, "T2", "s", {}),
     Snapshot("A1", t - 24, NotSet, "T2", "s", {}),
     Snapshot("A7", t - 7 * 24, NotSet, "T2", "s", {}),
     Snapshot("A30", t - 30 * 24, NotSet, "T2", "s", {}),
     Snapshot("A365", t - 365 * 24, NotSet, "T1", "s", {})}

ScenarioSets ==
    {ScenarioSnapshots(t) : t \in ScenarioTimes}
        \cup {{sn \in ScenarioSnapshots(t) : sn.id # "A1"} : t \in ScenarioTimes}

\* --keep-daily 2 --keep-weekly 1 --keep-monthly 1 --keep-yearly 1
ScenarioKeep ==
    [KeepDefault EXCEPT !.keep["daily"] = 2, !.keep["weekly"] = 1,
                        !.keep["monthly"] = 1, !.keep["yearly"] = 1]

\* the KeepOptions of the commands: one counter set (to -1, 1 or 2), one duration
\* set (to 30 hours or to 800 hours), the options of the scenario, or none
RetainKeeps ==
    {KeepDefault, ScenarioKeep}
        \cup {[KeepDefault EXCEPT !.keep[b] = n] : b \in Range(Buckets), n \in {-1, 1, 2}}
        \cup {[KeepDefault EXCEPT !.keep_within[b] = d] : b \in Range(Buckets), d \in {30, 800}}

InitRetain ==
    /\ indexFiles = InitIndexFiles(BasePlacement)
    /\ packFiles = InitPackFiles(HealthyFiles(BasePlacement))
    /\ config = [version |-> 2, is_hot |-> FALSE]
    /\ snapshots \in RetainSnapshotSets \cup ScenarioSets
    /\ clock = RetainClock
    /\ nextId = 20
    /\ run = IdleRun
    /\ start = [indexFiles |-> indexFiles, packFiles |-> packFiles, snapshots |-> snapshots]
    /\ prev = [run |-> run, start |-> start]
    /\ runs = 1
    /\ fg = NoCommand

NextRetain == \E keep \in RetainKeeps : Forget({}, keep, FALSE)

SpecRetain == InitRetain /\ [][NextRetain]_vars

-----------------------------------------------------------------------------
(* prune --dry-run under the repack limits: the plan of decide_repack *)

\* the repositories of the repack plans: in good order, pack 1 live, pack 5 in
\* no index file, and with or without pack 6 (D1, uncompressed) and pack 7 (D1
\* and D3) in the first index file
RepackRepos ==
    {[place |-> rp.place \o <<p6, p7>>, files |-> HealthyFiles(rp.place \o <<p6, p7>>), version |-> 2] :
        rp \in {x \in HealthyRepos : x.place[1] = {"l1"} /\ x.place[5] = {} /\ x.files[5] = "missing"},
        p6 \in {{}, {"l1"}}, p7 \in {{}, {"l1"}}}

\* --max-repack and --max-unused as a size, as a percentage, or unlimited
RepackLimits == {Unlimited, LimitSize(0), LimitSize(300), LimitSize(700), LimitPercentage(10), LimitPercentage(50)}
UnusedLimits == {Unlimited, LimitSize(0), LimitSize(150), LimitPercentage(5), LimitPercentage(50)}

RepackOpts ==
    {[DefaultOpts EXCEPT !.dry_run = TRUE, !.max_repack = mr, !.max_unused = mu,
                         !.repack_uncompressed = ru, !.no_resize = nr] :
        mr \in RepackLimits, mu \in UnusedLimits, ru \in BOOLEAN, nr \in BOOLEAN}

InitRepack ==
    /\ \E rp \in RepackRepos :
          /\ indexFiles = InitIndexFiles(rp.place)
          /\ packFiles = InitPackFiles(rp.files)
          /\ config = [version |-> rp.version, is_hot |-> FALSE]
    /\ snapshots = PruneSnapshots
    /\ clock = 1
    /\ nextId = 20
    /\ run = IdleRun
    /\ start = [indexFiles |-> indexFiles, packFiles |-> packFiles, snapshots |-> snapshots]
    /\ prev = [run |-> run, start |-> start]
    /\ runs = 1
    /\ fg = NoCommand

NextRepack ==
    \E opts \in RepackOpts, ig \in IgnoreSets, order \in Perms(DOMAIN indexFiles) :
        PruneStart(opts, ig, order, FALSE)

SpecRepack == InitRepack /\ [][NextRepack]_vars

-----------------------------------------------------------------------------
(* check: check_packs, check_snapshots and, with --read-data, check_pack on every
   pack of the index. The repository has no cache and no hot part. *)

\* the length of a compressed blob once it is decompressed
UncompressedLength(id) == 2 * BlobLength(id)

\* IndexBlob as check reads it: with the offset in the pack file and the
\* uncompressed length (0: None). The blobs of a pack are stored one after the
\* other, in the order of `blobs`.
RECURSIVE WithOffsets(_, _)
WithOffsets(blobs, offset) ==
    IF blobs = <<>> THEN <<>>
    ELSE <<[id |-> Head(blobs).id, tpe |-> Head(blobs).tpe, offset |-> offset,
            length |-> Head(blobs).length,
            uncompressed_length |-> IF Head(blobs).comp THEN UncompressedLength(Head(blobs).id) ELSE 0]>>
         \o WithOffsets(Tail(blobs), offset + Head(blobs).length)

Reverse(s) == [k \in 1..Len(s) |-> s[Len(s) + 1 - k]]

\* the IndexPack of an index file as check reads it; an index file may list the
\* blobs of a pack in another order than the pack stores them
CheckIndexPack(pack, reversed) ==
    [id |-> pack.id, size |-> IndexPack_pack_size(pack),
     header_len |-> PackHeaderRef_pack_size(pack.blobs) - LENGTH_LEN - SumSeq([k \in 1..Len(pack.blobs) |-> pack.blobs[k].length]),
     blobs |-> IF reversed THEN Reverse(WithOffsets(pack.blobs, 0)) ELSE WithOffsets(pack.blobs, 0)]

\* blobs.sort_unstable_by_key(|b| b.offset)
RECURSIVE SortByOffset(_)
SortByOffset(blobs) ==
    IF blobs = <<>> THEN <<>>
    ELSE LET k == CHOOSE i \in 1..Len(blobs) : \A j \in 1..Len(blobs) : blobs[i].offset <= blobs[j].offset
         IN <<blobs[k]>> \o SortByOffset([j \in 1..(Len(blobs) - 1) |-> IF j < k THEN blobs[j] ELSE blobs[j + 1]])

\* the bytes of a pack file as the packer writes them for `pack`: its length, its
\* hash, the header length in its last four bytes, the entries of its encrypted
\* header, and for every blob whether it decrypts and decompresses, and the
\* length and the hash of its plaintext
WrittenPack(pack) ==
    LET p == CheckIndexPack(pack, FALSE)
    IN [len |-> p.size, hash |-> pack.id, header_len |-> p.header_len,
        header_sealed |-> TRUE,
        header |-> [k \in 1..Len(p.blobs) |-> [id |-> p.blobs[k].id, tpe |-> p.blobs[k].tpe,
                                               length |-> p.blobs[k].length,
                                               uncompressed_length |-> p.blobs[k].uncompressed_length]],
        blobs |-> [k \in 1..Len(p.blobs) |-> [sealed |-> TRUE, zstd |-> TRUE,
                                              plain_len |-> p.blobs[k].uncompressed_length,
                                              hash |-> p.blobs[k].id]]]

\* the ways the bytes of a stored pack file differ from what the index describes
Damages == {"none", "bitflip", "header_len", "header_entry", "header_sealed", "blob_sealed",
            "blob_len", "blob_hash", "blob_zstd"}

\* the bytes read from the store for a pack: of the stored size, and damaged
StoredPack(pack, size, damage) ==
    LET w == WrittenPack(pack)
        last == Len(pack.blobs)
        f == CASE damage = "bitflip" -> [w EXCEPT !.hash = 0]
               [] damage = "header_len" -> [w EXCEPT !.header_len = @ + 1]
               [] damage = "header_entry" -> [w EXCEPT !.header[1].id = "other"]
               [] damage = "header_sealed" -> [w EXCEPT !.header_sealed = FALSE]
               [] damage = "blob_sealed" -> [w EXCEPT !.blobs[last].sealed = FALSE]
               [] damage = "blob_len" /\ pack.blobs[1].comp -> [w EXCEPT !.blobs[1].plain_len = @ + 1]
               [] damage = "blob_hash" -> [w EXCEPT !.blobs[last].hash = "other"]
               [] damage = "blob_zstd" /\ pack.blobs[1].comp -> [w EXCEPT !.blobs[1].zstd = FALSE]
               [] OTHER -> w
    IN IF size = w.len THEN f ELSE [f EXCEPT !.len = size, !.hash = 0]

\* PackHeader::from_binary(..).into_blobs(): the entries with their offsets
RECURSIVE PackHeader_blobs(_, _)
PackHeader_blobs(header, offset) ==
    IF header = <<>> THEN <<>>
    ELSE <<[id |-> Head(header).id, tpe |-> Head(header).tpe, offset |-> offset,
            length |-> Head(header).length,
            uncompressed_length |-> Head(header).uncompressed_length]>>
         \o PackHeader_blobs(Tail(header), offset + Head(header).length)

\* the loop of check_pack over the blobs: "ok", the error it logs, "Err" when
\* decrypt fails, "panic" when decode_all(..).unwrap() fails
RECURSIVE check_blobs(_, _)
check_blobs(blobs, data) ==
    IF blobs = <<>> THEN "ok"
    ELSE LET blob == Head(blobs)
             stored == Head(data)
         IN IF ~stored.sealed THEN "Err"
            ELSE IF blob.uncompressed_length # 0 /\ ~stored.zstd THEN "panic"
            ELSE IF blob.uncompressed_length # 0 /\ stored.plain_len # blob.uncompressed_length
            THEN "uncompressed length"
            ELSE IF stored.hash # blob.id THEN "blob hash"
            ELSE check_blobs(Tail(blobs), Tail(data))

\* check_pack: "ok", the error it logs before it returns Ok(()), "Err" for the
\* error it returns, or "panic"
check_pack(index_pack, data) ==
    IF data.len # index_pack.size THEN "size"
    ELSE IF data.hash # index_pack.id THEN "hash"
    ELSE IF data.header_len # index_pack.header_len THEN "header length"
    ELSE IF ~data.header_sealed THEN "Err"
    ELSE IF PackHeader_blobs(data.header, 0) # SortByOffset(index_pack.blobs) THEN "header"
    ELSE check_blobs(SortByOffset(index_pack.blobs), data.blobs)

\* error!(..): what is logged, for the pack id or for the blob
LoggedError(kind, id, blob) == [kind |-> kind, id |-> id, blob |-> blob]

\* the packs of index.packs of every index file: what IndexCollector is extended with
LivePacks(idx) == UNION {Range(idx[i].packs) : i \in DOMAIN idx}

\* process_pack of check_packs on every pack of packs and packs_to_delete: the
\* errors of the blob types and of the offsets
process_pack_errors(idx, reversed) ==
    {LoggedError("index offsets", e.id, "") :
        e \in {e \in UNION {AllEntries(idx[i]) : i \in DOMAIN idx} :
                  LET blobs == SortByOffset(CheckIndexPack(e, reversed).blobs)
                  IN \/ \E k \in 1..Len(blobs) : blobs[k].tpe # IndexPack_blob_type(e)
                     \/ \E k \in 1..Len(blobs) :
                           blobs[k].offset # SumSeq([j \in 1..(k - 1) |-> blobs[j].length])}}

\* check_packs_list: the errors it logs; a pack file that no index file lists is
\* a warning
check_packs_list(idx, pk) ==
    LET packs == UNION {AllEntries(idx[i]) : i \in DOMAIN idx}
    IN {LoggedError("index size", e.id, "") :
            e \in {e \in packs : e.id \in DOMAIN pk /\ pk[e.id] # IndexPack_pack_size(e)}}
       \cup {LoggedError("not present", e.id, "") : e \in {e \in packs : e.id \notin DOMAIN pk}}

\* check_snapshots: err when TreeStreamerOnce cannot load a tree (it is in no live
\* pack, or the file of its pack is not there), else the errors logged for the
\* File nodes whose content is not in the index
check_snapshots(idx, pk, snaps) ==
    LET trees == ReachTrees({s.tree : s \in snaps}, {})
        live == LivePacks(idx)
        indexed == {b.id : b \in UNION {Range(e.blobs) : e \in live}}
        readable == {b.id : b \in UNION {Range(e.blobs) : e \in {e \in live : e.id \in DOMAIN pk}}}
    IN IF ~(trees \subseteq readable) THEN [err |-> TRUE, errors |-> {}]
       ELSE [err |-> FALSE,
             errors |-> {LoggedError("missing in index", 0, id) :
                            id \in UNION {TreeNodes(x).files : x \in trees} \ indexed}]

\* no check yet: the bytes of the pack files (bytes) and the order in which the
\* index lists the blobs (reversed) are those of the repository
IdleCheck(bytes, reversed) ==
    [cmd |-> "check", pc |-> "idle", read_data |-> FALSE, bytes |-> bytes, reversed |-> reversed,
     errors |-> {}, todo |-> {}, checked |-> {}, result |-> "none"]

\* execute, up to the loop over the packs
CheckStart(read_data) ==
    /\ fg.cmd = "check" /\ fg.pc = "idle"
    /\ LET packs == process_pack_errors(indexFiles, fg.reversed) \cup check_packs_list(indexFiles, packFiles)
           snaps == check_snapshots(indexFiles, packFiles, snapshots)
       IN fg' = IF snaps.err
                THEN [fg EXCEPT !.pc = "done", !.read_data = read_data, !.errors = packs, !.result = "err"]
                ELSE IF read_data
                THEN [fg EXCEPT !.pc = "read_data", !.read_data = TRUE, !.errors = packs \cup snaps.errors,
                                !.todo = LivePacks(indexFiles)]
                ELSE [fg EXCEPT !.pc = "done", !.errors = packs \cup snaps.errors, !.result = "ok"]
    /\ UNCHANGED <<indexFiles, packFiles, snapshots, config, clock, nextId, run, start, prev, runs>>

\* one task of the par_bridge loop: read_full(..).unwrap() and check_pack. A
\* panic of a task ends the command; the tasks that other threads have taken may
\* still run to their end (pc "panic").
CheckPack(pack) ==
    /\ fg.cmd = "check" /\ fg.pc \in {"read_data", "panic"}
    /\ pack \in fg.todo
    /\ LET r == IF pack.id \notin DOMAIN packFiles THEN "panic"
                ELSE check_pack(CheckIndexPack(pack, fg.reversed),
                                StoredPack(pack, packFiles[pack.id], fg.bytes[pack.id]))
       IN fg' = [fg EXCEPT !.todo = @ \ {pack},
                           !.checked = IF r = "panic" THEN @ ELSE @ \cup {pack.id},
                           !.pc = IF r = "panic" THEN "panic" ELSE @,
                           !.errors = IF r \in {"ok", "panic"} THEN @
                                      ELSE @ \cup {LoggedError(r, pack.id, "")}]
    /\ UNCHANGED <<indexFiles, packFiles, snapshots, config, clock, nextId, run, start, prev, runs>>

\* the loop has ended: Ok(()), whatever has been logged
CheckEnd ==
    /\ fg.cmd = "check" /\ fg.pc = "read_data" /\ fg.todo = {}
    /\ fg' = [fg EXCEPT !.pc = "done", !.result = "ok"]
    /\ UNCHANGED <<indexFiles, packFiles, snapshots, config, clock, nextId, run, start, prev, runs>>

\* the panic of a task unwinds out of execute
CheckPanic ==
    /\ fg.cmd = "check" /\ fg.pc = "panic"
    /\ fg' = [fg EXCEPT !.pc = "done", !.result = "panic"]
    /\ UNCHANGED <<indexFiles, packFiles, snapshots, config, clock, nextId, run, start, prev, runs>>

\* the repositories of check: in good order, or with a pack file missing or of
\* another size, or with a used blob in no index file
CheckRepos ==
    {rp \in PruneRepos : /\ rp.version = 2
                         /\ rp.place[1] = {"l1"} /\ rp.place[2] = {} /\ rp.place[4] = {"l2"}
                         /\ rp.place[3] \in {{"l1"}, {"t2"}, {}} /\ rp.place[5] = {}}

\* the bytes of the pack files: at most one kind of damage in a repository
CheckBytes ==
    {b \in [InitPackIds -> Damages] : \E d \in Damages : \A id \in InitPackIds : b[id] \in {"none", d}}

InitCheck ==
    /\ \E rp \in CheckRepos :
          /\ indexFiles = InitIndexFiles(rp.place)
          /\ packFiles = InitPackFiles(rp.files)
          /\ config = [version |-> rp.version, is_hot |-> FALSE]
    /\ snapshots = PruneSnapshots
    /\ clock = 1
    /\ nextId = 20
    /\ run = IdleRun
    /\ start = [indexFiles |-> indexFiles, packFiles |-> packFiles, snapshots |-> snapshots]
    /\ prev = [run |-> run, start |-> start]
    /\ runs = 0
    /\ \E bytes \in CheckBytes, reversed \in BOOLEAN : fg = IdleCheck(bytes, reversed)

NextCheck ==
    \/ \E read_data \in BOOLEAN : CheckStart(read_data)
    \/ \E pack \in fg.todo : CheckPack(pack)
    \/ CheckEnd
    \/ CheckPanic

SpecCheck == InitCheck /\ [][NextCheck]_vars

-----------------------------------------------------------------------------
(* backend: find_starts_with, find_ids *)

\* the number of hex digits of an Id (64 in the source)
IdLen == 2

\* the nibbles of the Ids and the characters of the requested strings; "A" is a
\* hex digit in upper case, "z" is no hex digit
Nibbles == {10, 11}
Chars == {"a", "b", "A", "z"}

\* Id::to_hex: lower case
HexChar(n) == IF n = 10 THEN "a" ELSE "b"
to_hex(id) == [k \in 1..Len(id) |-> HexChar(id[k])]

\* Id::from_hex: the Id of a string of IdLen hex digits of either case, else an
\* error ("if the given id param are not full Ids")
HexValue(c) == CASE c = "a" -> 10 [] c = "A" -> 10 [] c = "b" -> 11 [] OTHER -> -1
from_hex(str) ==
    IF Len(str) = IdLen /\ \A k \in 1..Len(str) : HexValue(str[k]) >= 0
    THEN [ok |-> TRUE, id |-> [k \in 1..Len(str) |-> HexValue(str[k])]]
    ELSE [ok |-> FALSE, id |-> <<>>]

\* str::starts_with
starts_with(str, v) == Len(v) <= Len(str) /\ SubSeq(str, 1, Len(v)) = v

\* MapResult of find_starts_with
MapNone == [kind |-> "None", id |-> <<>>]
MapSome(id) == [kind |-> "Some", id |-> id]
MapNonUnique == [kind |-> "NonUnique", id |-> <<>>]

\* fault: the first listed id that matches is taken
find_loop_first(results, listing, vec) ==
    [i \in 1..Len(vec) |->
        IF \E k \in 1..Len(listing) : starts_with(to_hex(listing[k]), vec[i])
        THEN MapSome(listing[CHOOSE k \in 1..Len(listing) : starts_with(to_hex(listing[k]), vec[i])])
        ELSE MapNone]

\* the loops of find_starts_with over the listing and over the requested strings
RECURSIVE find_loop(_, _, _)
find_loop(results, listing, vec) ==
    IF listing = <<>> THEN results
    ELSE find_loop([i \in 1..Len(vec) |->
                       IF starts_with(to_hex(Head(listing)), vec[i])
                       THEN IF results[i] = MapNone THEN MapSome(Head(listing)) ELSE MapNonUnique
                       ELSE results[i]],
                   Tail(listing), vec)

\* find_starts_with: for every requested string Ok(id) or the error
find_starts_with(listing, vec) ==
    LET results == find_loop([i \in 1..Len(vec) |-> MapNone], listing, vec)
    IN [i \in 1..Len(vec) |->
           CASE results[i].kind = "Some" -> [ok |-> TRUE, id |-> results[i].id, err |-> ""]
             [] results[i].kind = "None" -> [ok |-> FALSE, id |-> <<>>, err |-> "no suitable id found"]
             [] OTHER -> [ok |-> FALSE, id |-> <<>>, err |-> "not unique"]]

\* find_ids: Ok(ids), or the first error of find_starts_with
find_ids(listing, ids) ==
    LET long_ids == [i \in 1..Len(ids) |-> from_hex(ids[i])]
        found == find_starts_with(listing, ids)
        errs == {i \in 1..Len(ids) : ~found[i].ok}
    IN IF \A i \in 1..Len(ids) : long_ids[i].ok
       THEN [ok |-> TRUE, ids |-> [i \in 1..Len(ids) |-> long_ids[i].id], err |-> ""]
       ELSE IF errs = {}
       THEN [ok |-> TRUE, ids |-> [i \in 1..Len(ids) |-> found[i].id], err |-> ""]
       ELSE [ok |-> FALSE, ids |-> <<>>, err |-> found[CHOOSE i \in errs : \A j \in errs : i <= j].err]

\* the call of find_ids or of find_starts_with on a listing, in the order the
\* backend lists the files
FindIds(listing) ==
    /\ fg.cmd = "find" /\ fg.pc = "idle"
    /\ Range(listing) = fg.listing /\ Len(listing) = Cardinality(fg.listing)
    /\ fg' = [fg EXCEPT !.pc = "find_ids", !.result = find_ids(listing, fg.ids)]
    /\ UNCHANGED <<indexFiles, packFiles, snapshots, config, clock, nextId, run, start, prev, runs>>

FindStartsWith(listing) ==
    /\ fg.cmd = "find" /\ fg.pc = "idle"
    /\ Range(listing) = fg.listing /\ Len(listing) = Cardinality(fg.listing)
    /\ fg' = [fg EXCEPT !.pc = "find_starts_with", !.found = find_starts_with(listing, fg.ids)]
    /\ UNCHANGED <<indexFiles, packFiles, snapshots, config, clock, nextId, run, start, prev, runs>>

\* the strings of up to IdLen characters, the Ids, the listings of up to three
\* files, the requests of one string or of a string and a full id
RECURSIVE Strings(_, _)
Strings(S, n) == IF n = 0 THEN {<<>>} ELSE Strings(S, n - 1) \cup {Append(s, c) : s \in Strings(S, n - 1), c \in S}
Ids == {s \in Strings(Nibbles, IdLen) : Len(s) = IdLen}
Listings == {l \in SUBSET Ids : Cardinality(l) <= 3}
Requests ==
    {<<s>> : s \in Strings(Chars, IdLen)}
        \cup {<<s, to_hex(id)>> : s \in Strings(Chars, IdLen), id \in Ids}

InitFind ==
    /\ indexFiles = <<>>
    /\ packFiles = <<>>
    /\ config = [version |-> 2, is_hot |-> FALSE]
    /\ snapshots = {}
    /\ clock = 1
    /\ nextId = 20
    /\ run = IdleRun
    /\ start = [indexFiles |-> indexFiles, packFiles |-> packFiles, snapshots |-> snapshots]
    /\ prev = [run |-> run, start |-> start]
    /\ runs = 0
    /\ \E listing \in Listings, ids \in Requests :
          fg = [cmd |-> "find", pc |-> "idle", listing |-> listing, ids |-> ids,
                result |-> [ok |-> FALSE, ids |-> <<>>, err |-> ""], found |-> <<>>]

NextFind ==
    \/ \E listing \in Perms(fg.listing) : FindIds(listing)
    \/ \E listing \in Perms(fg.listing) : FindStartsWith(listing)

SpecFind == InitFind /\ [][NextFind]_vars

-----------------------------------------------------------------------------
(* backend: DecryptBackend, hash_write_full and read_encrypted_full *)

\* the bytes of the payloads: the tag of compressed data, '{', '[', the first
\* byte of a zstd frame, and another byte
ZstdTag == 2
Brace == 123
Bracket == 91
ZstdMagic == 40
Bytes == {ZstdTag, Brace, Bracket, ZstdMagic, 7}
MaxPayload == 2
Payloads == Strings(Bytes, MaxPayload)

\* zstd: copy_encode writes a frame that begins with the magic byte; decode_all
\* gives the data of a frame back, and an error for bytes that are no frame
copy_encode(data) == <<ZstdMagic>> \o Reverse(data)
decode_all(frame) ==
    IF frame # <<>> /\ Head(frame) = ZstdMagic
    THEN [ok |-> TRUE, data |-> Reverse(Tail(frame))]
    ELSE [ok |-> FALSE, data |-> <<>>]

\* CryptoKey: encrypt_data masks every byte and appends the tag of the plaintext;
\* decrypt_data gives the plaintext back when the tag fits, else an error
Mask(b) == 255 - b
Mac(data) == SumSeq(data) % 256
encrypt_data(data) == [k \in 1..Len(data) |-> Mask(data[k])] \o <<Mac(data)>>
decrypt_data(bytes) ==
    LET body == [k \in 1..(Len(bytes) - 1) |-> Mask(bytes[k])]
    IN IF bytes # <<>> /\ bytes[Len(bytes)] = Mac(body)
       THEN [ok |-> TRUE, data |-> body]
       ELSE [ok |-> FALSE, data |-> <<>>]

\* hash: the Id of the bytes of a file
hash(bytes) == <<"id">> \o bytes

\* the bytes hash_write_full writes
hash_write_bytes(zstd, data) ==
    IF zstd THEN encrypt_data(<<ZstdTag>> \o copy_encode(data)) ELSE encrypt_data(data)

\* read_encrypted_full on the bytes of a file: Ok(data), "err", or "panic" when
\* decrypted[0] is read of an empty payload
read_encrypted_full(bytes) ==
    LET decrypted == decrypt_data(bytes)
    IN IF ~decrypted.ok THEN [res |-> "err", data |-> <<>>]
       ELSE IF decrypted.data = <<>> THEN [res |-> "panic", data |-> <<>>]
       ELSE IF Head(decrypted.data) \in {Brace, Bracket} THEN [res |-> "ok", data |-> decrypted.data]
       ELSE IF Head(decrypted.data) = ZstdTag
       THEN IF decode_all(Tail(decrypted.data)).ok
            THEN [res |-> "ok", data |-> decode_all(Tail(decrypted.data)).data]
            ELSE [res |-> "err", data |-> <<>>]
       ELSE [res |-> "err", data |-> <<>>]

\* hash_write_full: the file is written under the hash of its bytes
HashWriteFull(data) ==
    /\ fg.cmd = "backend" /\ fg.written = <<>>
    /\ LET bytes == hash_write_bytes(fg.zstd, data)
       IN fg' = [fg EXCEPT !.files = @ \cup {bytes},
                           !.written = <<[id |-> hash(bytes), data |-> data]>>]
    /\ UNCHANGED <<indexFiles, packFiles, snapshots, config, clock, nextId, run, start, prev, runs>>

\* read_encrypted_full of a file of the store
ReadEncryptedFull(bytes) ==
    /\ fg.cmd = "backend"
    /\ bytes \in fg.files
    /\ fg' = [fg EXCEPT !.read = <<[id |-> hash(bytes), payload |-> decrypt_data(bytes).data,
                                    out |-> read_encrypted_full(bytes)]>>]
    /\ UNCHANGED <<indexFiles, packFiles, snapshots, config, clock, nextId, run, start, prev, runs>>

\* a store with one file of any payload, written by this or by another program,
\* with or without zstd configured
InitBackend ==
    /\ indexFiles = <<>>
    /\ packFiles = <<>>
    /\ config = [version |-> 2, is_hot |-> FALSE]
    /\ snapshots = {}
    /\ clock = 1
    /\ nextId = 20
    /\ run = IdleRun
    /\ start = [indexFiles |-> indexFiles, packFiles |-> packFiles, snapshots |-> snapshots]
    /\ prev = [run |-> run, start |-> start]
    /\ runs = 0
    /\ \E zstd \in BOOLEAN, payload \in Payloads :
          fg = [cmd |-> "backend", zstd |-> zstd, files |-> {encrypt_data(payload)},
                written |-> <<>>, read |-> <<>>]

NextBackend ==
    \/ \E data \in Payloads : HashWriteFull(data)
    \/ \E bytes \in fg.files : ReadEncryptedFull(bytes)

SpecBackend == InitBackend /\ [][NextBackend]_vars

-----------------------------------------------------------------------------
(* packfile: the pack header, written by PackHeaderRef and read by PackHeader *)

\* most blobs of a pack
MaxBlobs == 3

\* the length of an Id in bytes
ID_LEN == 32

\* a u32 in little endian
LE32(n) == <<n % 256, (n \div 256) % 256, (n \div 65536) % 256, (n \div 16777216) % 256>>
FromLE32(b) == b[1] + 256 * b[2] + 65536 * b[3] + 16777216 * b[4]

\* the bytes of the Id of a blob, and the blob of the bytes of an Id
HeaderBlobs == {"D1", "D3", "T1"}
IdBytes(id) == [k \in 1..ID_LEN |-> IF k = 1 THEN BlobLength(id) % 256 ELSE IF k = 2 THEN BlobLength(id) \div 256 ELSE k]
IdOfBytes(b) == IF \E id \in HeaderBlobs : IdBytes(id) = b THEN CHOOSE id \in HeaderBlobs : IdBytes(id) = b ELSE "other"

\* HeaderEntry::from_blob: the magic of the entry of a blob
HeaderEntry_magic(blob) ==
    IF blob.uncompressed_length = 0
    THEN IF blob.tpe = "Data" THEN 0 ELSE 1
    ELSE IF blob.tpe = "Data" THEN 2 ELSE 3

\* fault: every entry counted as an uncompressed one
HeaderEntry_length_uncompressed(blob) == ENTRY_LEN

\* HeaderEntry::from_blob(blob).length()
HeaderEntry_length(blob) == IF HeaderEntry_magic(blob) \in {0, 1} THEN ENTRY_LEN ELSE ENTRY_LEN_COMPRESSED

\* HeaderEntry::write: magic, len, len_data of a compressed entry, id
HeaderEntry_write(blob) ==
    <<HeaderEntry_magic(blob)>> \o LE32(blob.length)
        \o (IF blob.uncompressed_length = 0 THEN <<>> ELSE LE32(blob.uncompressed_length))
        \o IdBytes(blob.id)

\* PackHeaderRef::size
RECURSIVE PackHeaderRef_size(_)
PackHeaderRef_size(blobs) ==
    IF blobs = <<>> THEN COMP_OVERHEAD
    ELSE LET n == Len(blobs) IN PackHeaderRef_size(SubSeq(blobs, 1, n - 1)) + HeaderEntry_length(blobs[n])

\* PackHeaderRef::pack_size, of the blobs as an index file lists them
RECURSIVE PackHeaderRef_pack_size_listed(_)
PackHeaderRef_pack_size_listed(blobs) ==
    IF blobs = <<>> THEN COMP_OVERHEAD + LENGTH_LEN
    ELSE LET n == Len(blobs)
         IN PackHeaderRef_pack_size_listed(SubSeq(blobs, 1, n - 1)) + blobs[n].length + HeaderEntry_length(blobs[n])

\* PackHeaderRef::to_binary
RECURSIVE PackHeaderRef_to_binary(_)
PackHeaderRef_to_binary(blobs) ==
    IF blobs = <<>> THEN <<>> ELSE HeaderEntry_write(Head(blobs)) \o PackHeaderRef_to_binary(Tail(blobs))

\* PackHeader::from_binary: the loop over the entries, from `offset` on. An entry
\* that is cut short or has no known magic ends the loop with an error.
RECURSIVE from_binary(_, _)
from_binary(pack, offset) ==
    IF pack = <<>> THEN [ok |-> TRUE, blobs |-> <<>>]
    ELSE LET magic == Head(pack)
             n == IF magic \in {0, 1} THEN ENTRY_LEN ELSE ENTRY_LEN_COMPRESSED
         IN IF magic \notin 0..3 \/ Len(pack) < n THEN [ok |-> FALSE, blobs |-> <<>>]
            ELSE LET len == FromLE32(SubSeq(pack, 2, 5))
                     blob == [id |-> IdOfBytes(SubSeq(pack, n - ID_LEN + 1, n)),
                              tpe |-> IF magic \in {0, 2} THEN "Data" ELSE "Tree",
                              offset |-> offset, length |-> len,
                              uncompressed_length |-> IF magic \in {0, 1} THEN 0 ELSE FromLE32(SubSeq(pack, 6, 9))]
                     rest == from_binary(SubSeq(pack, n + 1, Len(pack)), offset + blob.length)
                 IN IF rest.ok THEN [ok |-> TRUE, blobs |-> <<blob>> \o rest.blobs] ELSE rest

\* the header of a pack is written from the blobs an index file lists for it
HeaderWrite ==
    /\ fg.cmd = "header" /\ fg.pc = "idle"
    /\ fg' = [fg EXCEPT !.pc = "written",
                        !.binary = PackHeaderRef_to_binary(fg.blobs),
                        !.size = PackHeaderRef_size(fg.blobs),
                        !.pack_size = PackHeaderRef_pack_size_listed(fg.blobs)]
    /\ UNCHANGED <<indexFiles, packFiles, snapshots, config, clock, nextId, run, start, prev, runs>>

\* the header is read back
HeaderRead ==
    /\ fg.cmd = "header" /\ fg.pc = "written"
    /\ fg' = [fg EXCEPT !.pc = "read", !.parsed = from_binary(fg.binary, 0)]
    /\ UNCHANGED <<indexFiles, packFiles, snapshots, config, clock, nextId, run, start, prev, runs>>

\* the lists of up to MaxBlobs blobs, compressed or not; an index file lists
\* them in the order of the pack or in the reverse order
RECURSIVE HeaderLists(_)
HeaderLists(n) ==
    IF n = 0 THEN {<<>>}
    ELSE HeaderLists(n - 1)
            \cup {Append(l, IndexBlob(id, comp)) : l \in HeaderLists(n - 1), id \in HeaderBlobs, comp \in BOOLEAN}

InitHeader ==
    /\ indexFiles = <<>>
    /\ packFiles = <<>>
    /\ config = [version |-> 2, is_hot |-> FALSE]
    /\ snapshots = {}
    /\ clock = 1
    /\ nextId = 20
    /\ run = IdleRun
    /\ start = [indexFiles |-> indexFiles, packFiles |-> packFiles, snapshots |-> snapshots]
    /\ prev = [run |-> run, start |-> start]
    /\ runs = 0
    /\ \E l \in HeaderLists(MaxBlobs), reversed \in BOOLEAN :
          fg = [cmd |-> "header", pc |-> "idle",
                blobs |-> IF reversed THEN Reverse(WithOffsets(l, 0)) ELSE WithOffsets(l, 0),
                binary |-> <<>>, size |-> 0, pack_size |-> 0,
                parsed |-> [ok |-> FALSE, blobs |-> <<>>]]

NextHeader == HeaderWrite \/ HeaderRead

SpecHeader == InitHeader /\ [][NextHeader]_vars

-----------------------------------------------------------------------------
(* restore_contents and warm_up: one read task is spawned for every blob (for
   every pack), and the stream of the spawned tasks is drained while it holds
   more than MAX_READER of them. What a task reads and writes is left out. *)

MAX_READER == 20

\* most blobs (packs) of a call, and most tasks of a call that panic
MaxTasks == 22
MaxPanics == 1

\* stream.len(): the tasks pushed to the stream and not yet taken from it
stream_len(f) == f.running + Len(f.finished)

\* the test of the while loop before a task is pushed
stream_full(f) == stream_len(f) > MAX_READER

\* stream.push(spawn(..)): the loop goes on to the next blob; after the last
\* one it goes on to try_collect
ReaderSpawn ==
    /\ fg.cmd \in {"restore", "warm_up"} /\ fg.pc = "loop"
    /\ fg.todo > 0 /\ ~stream_full(fg)
    /\ fg' = [fg EXCEPT !.running = @ + 1, !.todo = @ - 1,
                        !.pc = IF fg.todo = 1 THEN "collect" ELSE "loop"]
    /\ UNCHANGED <<indexFiles, packFiles, snapshots, config, clock, nextId, run, start, prev, runs>>

\* a spawned task ends: it returns, or (restore only) an unwrap in it panics.
\* Tasks end in any order, also after the call has returned an error.
ReaderEnds(outcome) ==
    /\ fg.cmd \in {"restore", "warm_up"} /\ fg.running > 0
    /\ outcome = "panic" => fg.cmd = "restore" /\ fg.panics < MaxPanics
    /\ fg' = [fg EXCEPT !.running = @ - 1,
                        !.finished = IF fg.pc = "failed" THEN @ ELSE Append(@, outcome),
                        !.panics = IF outcome = "panic" THEN @ + 1 ELSE @]
    /\ UNCHANGED <<indexFiles, packFiles, snapshots, config, clock, nextId, run, start, prev, runs>>

\* stream.try_next().await? in the while loop: the task that ended first is
\* taken from the stream; a panicked task makes the call return the error
ReaderNext ==
    /\ fg.cmd \in {"restore", "warm_up"} /\ fg.pc = "loop"
    /\ stream_full(fg) /\ fg.finished # <<>>
    /\ fg' = [fg EXCEPT !.finished = IF Head(@) = "panic" THEN <<>> ELSE Tail(@),
                        !.pc = IF Head(fg.finished) = "panic" THEN "failed" ELSE "loop"]
    /\ UNCHANGED <<indexFiles, packFiles, snapshots, config, clock, nextId, run, start, prev, runs>>

\* stream.try_collect().await?: the tasks are taken as they end, until the stream
\* is empty or a task has panicked
ReaderCollect ==
    /\ fg.cmd \in {"restore", "warm_up"} /\ fg.pc = "collect"
    /\ \/ /\ fg.finished # <<>>
          /\ fg' = [fg EXCEPT !.finished = IF Head(@) = "panic" THEN <<>> ELSE Tail(@),
                              !.pc = IF Head(fg.finished) = "panic" THEN "failed" ELSE "collect"]
       \/ /\ stream_len(fg) = 0
          /\ fg' = [fg EXCEPT !.pc = "done"]
    /\ UNCHANGED <<indexFiles, packFiles, snapshots, config, clock, nextId, run, start, prev, runs>>

InitReaders ==
    /\ indexFiles = <<>>
    /\ packFiles = <<>>
    /\ config = [version |-> 2, is_hot |-> FALSE]
    /\ snapshots = {}
    /\ clock = 1
    /\ nextId = 20
    /\ run = IdleRun
    /\ start = [indexFiles |-> indexFiles, packFiles |-> packFiles, snapshots |-> snapshots]
    /\ prev = [run |-> run, start |-> start]
    /\ runs = 0
    /\ \E cmd \in {"restore", "warm_up"}, n \in 0..MaxTasks :
          fg = [cmd |-> cmd, pc |-> IF n = 0 THEN "collect" ELSE "loop", blobs |-> n, todo |-> n,
                running |-> 0, finished |-> <<>>, panics |-> 0]

NextReaders ==
    \/ ReaderSpawn
    \/ \E outcome \in {"ok", "panic"} : ReaderEnds(outcome)
    \/ ReaderNext
    \/ ReaderCollect

SpecReaders == InitReaders /\ [][NextReaders]_vars

-----------------------------------------------------------------------------
(* Prune plans for repositories with many copies of a blob: packs_to_delete of
   the second index file holds copies of D1, a few in packs of one blob each or
   many as the entries of one pack; up to two live packs hold D1 as well *)

\* most copies of D1 in packs_to_delete
MaxCopies == 256

\* most copies that are packs of their own
FewCopies == 3

\* the numbers of copies: few, and about as many as a counter of used_ids holds
CopyCounts == 1..FewCopies \cup {U8_MAX - 2, U8_MAX - 1, U8_MAX, MaxCopies}

\* the first pack id of the copies
CopyBase == 100

\* the tombstoned packs of `copies` copies of D1
CopyPacks(copies, shape) ==
    IF shape = "packs"
    THEN [k \in 1..copies |-> IndexPack(CopyBase + k, 0, NoSize, Blobs(<<"D1">>, TRUE))]
    ELSE <<IndexPack(CopyBase + 1, 0, NoSize, Blobs([k \in 1..copies |-> "D1"], TRUE))>>

\* the index files: the trees and D2 are live in the first one; `live` live packs
\* with D1 are in the first or in the second one
CopyIndexFiles(copies, shape, live, where) ==
    LET with_d1 == SubSeq(<<InitPack(3), InitPack(6)>>, 1, live)
    IN (10 :> [packs |-> <<InitPack(1), InitPack(4)>> \o (IF where = 10 THEN with_d1 ELSE <<>>),
               packs_to_delete |-> <<>>])
       @@ (11 :> [packs |-> IF where = 11 THEN with_d1 ELSE <<>>,
                  packs_to_delete |-> CopyPacks(copies, shape)])

\* every listed pack has its file
CopyPackFiles(idx) ==
    LET entries == UNION {AllEntries(idx[i]) : i \in DOMAIN idx}
    IN [id \in {e.id : e \in entries} |-> IndexPack_pack_size(CHOOSE e \in entries : e.id = id)]

CopyOpts == {[DefaultOpts EXCEPT !.dry_run = TRUE, !.keep_delete = k] : k \in {0, 2}}

InitCopies ==
    /\ \E copies \in CopyCounts, shape \in {"packs", "entries"}, live \in 0..2, where \in {10, 11} :
          /\ shape = "packs" => copies <= FewCopies
          /\ indexFiles = CopyIndexFiles(copies, shape, live, where)
    /\ packFiles = CopyPackFiles(indexFiles)
    /\ config = [version |-> 2, is_hot |-> FALSE]
    /\ snapshots = PruneSnapshots
    /\ clock = 1
    /\ nextId = 20
    /\ run = IdleRun
    /\ start = [indexFiles |-> indexFiles, packFiles |-> packFiles, snapshots |-> snapshots]
    /\ prev = [run |-> run, start |-> start]
    /\ runs = 1
    /\ fg = NoCommand

NextCopies ==
    \E opts \in CopyOpts, ig \in IgnoreSets, order \in Perms(DOMAIN indexFiles) :
        PruneStart(opts, ig, order, FALSE)

SpecCopies == InitCopies /\ [][NextCopies]_vars

-----------------------------------------------------------------------------
(* The tasks of do_prune in parallel *)

\* the options of the parallel runs: no dry run, and no pack is too young
ParOpts == {o \in OptsSet : ~o.dry_run /\ o.keep_pack = 0 /\ o.keep_delete = 0}

\* the repositories of the parallel runs: the trees in packs 1 and 8 of the first
\* index file, the data packs 3 and 4 in the first or the second, and pack 7 in
\* the second or in none
ParPlacements ==
    {<<{"l1"}, {}, p3, p4, {}, {}, p7, {"l1"}>> :
        p3 \in {{"l1"}, {"l2"}}, p4 \in {{"l1"}, {"l2"}}, p7 \in {{}, {"l2"}}}

\* the snapshots of the parallel runs: S3 holds the file D3 as well
ParSnapshots == PruneSnapshots \cup {Snapshot("S3", 0, NotSet, "T4", "g", {})}

InitPar ==
    /\ \E pl \in ParPlacements :
          /\ indexFiles = InitIndexFiles(pl)
          /\ packFiles = InitPackFiles(HealthyFiles(pl))
          /\ config = [version |-> 2, is_hot |-> FALSE]
    /\ snapshots = ParSnapshots
    /\ clock = 1
    /\ nextId = 20
    /\ run = IdleRun
    /\ start = [indexFiles |-> indexFiles, packFiles |-> packFiles, snapshots |-> snapshots]
    /\ prev = [run |-> run, start |-> start]
    /\ runs = 1
    /\ fg = NoCommand

\* every pack file of these repositories is in an index file: there is no
\* unindexed pack to remove or to mark
NextPar ==
    \/ \E opts \in ParOpts, ig \in IgnoreSets, order \in Perms(DOMAIN indexFiles) :
          PruneStart(opts, ig, order, TRUE)
    \/ IndexerSave
    \/ \E k \in run.todo : ProcessPack(k)
    \/ \E k \in run.todo : RepackBlob(k)
    \/ \E k \in run.todo : RepackEnd(k)
    \/ \E tpe \in {"Tree", "Data"} : FinalizeRepacker(tpe)
    \/ FinalizeIndexer
    \/ \E id \in DOMAIN indexFiles : RemoveIndex(id)
    \/ \E id \in run.data_packs_remove \cup run.tree_packs_remove : RemovePack(id)

SpecPar == InitPar /\ [][NextPar]_vars

-----------------------------------------------------------------------------
(* Prune runs while tombstoned packs wait for their deletion *)

\* prune runs on a repository with tombstoned packs
ClockRuns == 3

\* the repositories: packs 1 and 3 live in the first index file, pack 4 live or
\* tombstoned in the second, pack 5 tombstoned in the second; the tombstones
\* carry the time 0
ClockPlacements == {<<{"l1"}, {}, {"l1"}, p4, {"t2"}>> : p4 \in {{"l2"}, {"t2"}}}

\* the options of these runs: no dry run, no instant delete
ClockOpts == {[DefaultOpts EXCEPT !.keep_delete = kd] : kd \in {2, 3}}

InitClock ==
    /\ \E pl \in ClockPlacements :
          /\ indexFiles = InitIndexFiles(pl)
          /\ packFiles = InitPackFiles(HealthyFiles(pl))
    /\ config = [version |-> 2, is_hot |-> FALSE]
    /\ snapshots = PruneSnapshots
    /\ clock = 1
    /\ nextId = 20
    /\ run = IdleRun
    /\ start = [indexFiles |-> indexFiles, packFiles |-> packFiles, snapshots |-> snapshots]
    /\ prev = [run |-> run, start |-> start]
    /\ runs = ClockRuns
    /\ fg = NoCommand

\* every pack file of these repositories is in an index file: there is no
\* unindexed pack to remove or to mark; and a Repacker of these runs has written
\* its pack when the tasks end: finalize finds no pack in progress
NextClock ==
    \/ \E opts \in ClockOpts, order \in Perms(DOMAIN indexFiles) :
          PruneStart(opts, {}, order, FALSE)
    \/ IndexerSave
    \/ \E k \in run.todo : ProcessPack(k)
    \/ \E k \in run.todo : RepackBlob(k)
    \/ \E k \in run.todo : RepackEnd(k)
    \/ FinalizeIndexer
    \/ \E id \in DOMAIN indexFiles : RemoveIndex(id)
    \/ \E id \in run.data_packs_remove \cup run.tree_packs_remove : RemovePack(id)
    \/ Tick

SpecClock == InitClock /\ [][NextClock]_vars

-----------------------------------------------------------------------------
(* What the store says, read back after a run *)

\* the blobs a set of snapshots references: their trees, and every file content
\* and subtree below them
Referenced(snaps) ==
    {s.tree : s \in snaps}
        \cup UNION {TreeNodes(t).files \cup TreeNodes(t).dirs : t \in ReachTrees({s.tree : s \in snaps}, {})}

\* the snapshots a run has to preserve
KeptSnapshots == {s \in snapshots : s.id \notin run.ignore}

\* the ids of the pack files that the live `packs` list of some present index file
\* names and that are in the store
LivePackIds(idx, pk) ==
    {e.id : e \in UNION {Range(idx[i].packs) : i \in DOMAIN idx}} \cap DOMAIN pk

\* the blobs listed in the live `packs` of a present index file, in a pack that exists
LiveBlobs(idx, pk) ==
    {b.id : b \in UNION {Range(e.blobs) :
                           e \in {x \in UNION {Range(idx[i].packs) : i \in DOMAIN idx} : x.id \in DOMAIN pk}}}

\* the blobs listed in `packs` or `packs_to_delete` of a present index file, in a
\* pack that exists
ListedBlobs(idx, pk) ==
    {b.id : b \in UNION {Range(e.blobs) :
                           e \in {x \in UNION {AllEntries(idx[i]) : i \in DOMAIN idx} : x.id \in DOMAIN pk}}}

\* a run has ended without error
Completed == run.pc = "idle" /\ run.result = "ok"

-----------------------------------------------------------------------------
(* C1 *)

\* C1 as stated: after a prune run that completes without error, whatever its
\* options, every blob referenced by a snapshot outside ignore_snaps is listed in the
\* live packs of a present index file, in a pack file that exists.
C1_NoUsedBlobLost_AnyOptions ==
    Completed => Referenced(KeptSnapshots) \subseteq LiveBlobs(indexFiles, packFiles)

\* C1, amended: the same for the runs without dry_run.
C1_NoUsedBlobLost ==
    (Completed /\ ~run.opts.dry_run) =>
        Referenced(KeptSnapshots) \subseteq LiveBlobs(indexFiles, packFiles)

\* a run without dry_run has completed that found a used blob in a tombstoned pack
\* only, has rewritten index files and removed pack files
C1_Witness ==
    /\ Completed /\ ~run.opts.dry_run
    /\ ~(Referenced(KeptSnapshots) \subseteq LiveBlobs(start.indexFiles, start.packFiles))
    /\ Referenced(KeptSnapshots) \subseteq LiveBlobs(indexFiles, packFiles)
    /\ DOMAIN packFiles # DOMAIN start.packFiles

-----------------------------------------------------------------------------
(* C2 *)

\* the ids that the live `packs` lists of the present index files name
LiveRefs(idx) == {e.id : e \in UNION {Range(idx[i].packs) : i \in DOMAIN idx}}

\* the ids that the `packs_to_delete` lists of the present index files name
TombRefs(idx) == {e.id : e \in UNION {Range(idx[i].packs_to_delete) : i \in DOMAIN idx}}

\* a prune run has been started
Started == run.pc # "idle" \/ run.result # "none"

\* C2: wherever do_prune is stopped among its writes and removes, every used blob
\* that a live pack held before the run is listed in the live packs of a present
\* index file, in a pack file that exists; and no live entry names a pack file that
\* the run has removed. What may be left over is pack files that no index file names.
C2_CrashSafe ==
    /\ (Referenced(KeptSnapshots) \cap LiveBlobs(start.indexFiles, start.packFiles))
           \subseteq LiveBlobs(indexFiles, packFiles)
    /\ (LiveRefs(indexFiles) \ DOMAIN packFiles) \subseteq (LiveRefs(start.indexFiles) \ DOMAIN start.packFiles)

\* do_prune stands between the new index files and the removal of the old ones,
\* with used blobs repacked into a new pack file
C2_Witness ==
    /\ run.pc = "remove_indexes"
    /\ run.indexes_remove \cap DOMAIN indexFiles # {}
    /\ \E id \in DOMAIN packFiles \ DOMAIN start.packFiles : id \in LiveRefs(indexFiles)
    /\ Referenced(KeptSnapshots) \cap LiveBlobs(start.indexFiles, start.packFiles) # {}

-----------------------------------------------------------------------------
(* C3 *)

\* everything that comes before the removal of packs in do_prune is done
PublishedAll ==
    /\ run.todo = {}
    /\ run.repacker["Tree"] = <<>> /\ run.repacker["Data"] = <<>>
    /\ run.indexer = Indexer_new
    /\ run.indexes_remove \cap DOMAIN indexFiles = {}

\* the step removes the pack file id, in its turn
RemovedInTurn(id) ==
    /\ PublishedAll
    /\ id \in run.tree_packs_remove => run.data_packs_remove \cap DOMAIN packFiles = {}

\* C3 as stated: every pack file a run removes, it removes after both repackers and
\* the indexer are finalized and the old index files are removed, data packs
\* before tree packs.
C3_PackDeletionLast_AnyPack ==
    [][\A id \in DOMAIN packFiles \ DOMAIN packFiles' : RemovedInTurn(id)]_vars

\* C3, amended: the same for the pack files that an index file named when the run
\* started (an unindexed pack is removed, with instant_delete, as do_prune begins).
C3_PackDeletionLast ==
    [][\A id \in (DOMAIN packFiles \ DOMAIN packFiles')
                    \cap (LiveRefs(start.indexFiles) \cup TombRefs(start.indexFiles)) :
          RemovedInTurn(id)]_vars

\* a run has removed a tree pack and a data pack that index files named, after it
\* wrote a new pack and new index files
C3_Witness ==
    /\ Completed
    /\ \E t, d \in (DOMAIN start.packFiles \ DOMAIN packFiles)
                     \cap (LiveRefs(start.indexFiles) \cup TombRefs(start.indexFiles)) :
          /\ \E p \in Range(run.decided) : p.id = t /\ p.blob_type = "Tree"
          /\ \E p \in Range(run.decided) : p.id = d /\ p.blob_type = "Data"
    /\ DOMAIN packFiles \ DOMAIN start.packFiles # {}
    /\ DOMAIN indexFiles \ DOMAIN start.indexFiles # {}

-----------------------------------------------------------------------------
(* C4 *)

\* the entries of pack id in the `packs_to_delete` lists at the start of the run
TombstonesAtStart(id) ==
    {e \in UNION {Range(start.indexFiles[i].packs_to_delete) : i \in DOMAIN start.indexFiles} : e.id = id}

\* the blob is listed, at the start of the run, in a pack other than id
ListedElsewhere(b, id) ==
    \E e \in UNION {AllEntries(start.indexFiles[i]) : i \in DOMAIN start.indexFiles} :
        e.id # id /\ \E k \in 1..Len(e.blobs) : e.blobs[k].id = b

\* the quarantine of pack id is over for the run: it was tombstoned at least
\* keep_delete before the run, the run has decided Delete for it, and none of the
\* used blobs it lists needs it
QuarantineOver(id) ==
    /\ \E e \in TombstonesAtStart(id) :
          /\ run.time - e.time >= run.opts.keep_delete
          /\ \A k \in 1..Len(e.blobs) : e.blobs[k].id \in run.used => ListedElsewhere(e.blobs[k].id, id)
    /\ \E p \in Range(run.decided) : p.id = id /\ p.delete_mark /\ p.to_do = "Delete"

\* C4: without instant_delete, a run removes a pack file only when the pack's
\* quarantine is over; the other pack files it takes out of the live packs (unused,
\* repacked) and the unindexed ones are in `packs_to_delete` when it has completed.
C4_Quarantine ==
    (Started /\ ~run.opts.instant_delete) =>
        /\ \A id \in DOMAIN start.packFiles \ DOMAIN packFiles : QuarantineOver(id)
        /\ (Completed /\ ~run.opts.dry_run) =>
              \A id \in DOMAIN start.packFiles \cap DOMAIN packFiles :
                  id \notin LiveRefs(indexFiles) => id \in TombRefs(indexFiles)

\* a run without instant_delete has removed a pack whose quarantine was over and has
\* tombstoned an unindexed pack, a repacked pack and a pack tombstoned too lately
C4_Witness ==
    /\ Completed /\ ~run.opts.instant_delete /\ ~run.opts.dry_run
    /\ DOMAIN start.packFiles \ DOMAIN packFiles # {}
    /\ \E id \in DOMAIN packFiles :
          id \notin LiveRefs(start.indexFiles) \cup TombRefs(start.indexFiles) /\ id \in TombRefs(indexFiles)
    /\ \E p \in Range(run.decided) :
          p.to_do = "Repack" /\ p.id \in DOMAIN packFiles /\ p.id \in TombRefs(indexFiles)

-----------------------------------------------------------------------------
(* C5 *)

\* the store is what it was when the run started
StoreAsAtStart ==
    /\ indexFiles = start.indexFiles
    /\ packFiles = start.packFiles
    /\ snapshots = start.snapshots

\* a used blob is in no pack that an index file lists
UsedBlobMissing ==
    \E b \in Referenced(KeptSnapshots) :
        \A e \in UNION {AllEntries(start.indexFiles[i]) : i \in DOMAIN start.indexFiles} :
            \A k \in 1..Len(e.blobs) : e.blobs[k].id # b

\* a pack decided Keep, Recover or Repack is not in the listing of the store, or is
\* there with a size that is not the size derived from the index
NeededPackBad ==
    \E p \in Range(run.decided) :
        /\ p.to_do \in {"Keep", "Recover", "Repack"}
        /\ \/ p.id \notin DOMAIN start.packFiles
           \/ start.packFiles[p.id] # p.size

\* repack_uncompressed on a repository of version 1
UncompressedOnV1 == run.opts.repack_uncompressed /\ config.version < 2

\* C5: when a validation before do_prune fails, the run returns an error and the
\* store has seen no write and no remove.
C5_AbortBeforeDestruction ==
    (Started /\ (UsedBlobMissing \/ NeededPackBad \/ UncompressedOnV1)) =>
        /\ run.pc = "idle" /\ run.result = "err"
        /\ StoreAsAtStart

\* runs have ended with each of the validation errors, on repositories a run
\* without the flaw would have changed
C5_Witness ==
    /\ run.result = "err"
    /\ \/ UsedBlobMissing /\ run.err = "missing blobs"
       \/ NeededPackBad /\ run.err = "pack check" /\ ~run.opts.dry_run
            /\ \E p \in Range(run.decided) : p.to_do \in {"MarkDelete", "Repack", "Delete"}
       \/ UncompressedOnV1 /\ run.err = "v1 repo"

-----------------------------------------------------------------------------
(* C6 *)

\* C6: a run with dry_run leaves the index files, the pack files and the snapshot
\* files of the store as they were.
C6_DryRunFrame ==
    (Started /\ run.opts.dry_run) => StoreAsAtStart

\* a run with dry_run has completed whose plan removes, marks and repacks packs
C6_Witness ==
    /\ Completed /\ run.opts.dry_run
    /\ \E p \in Range(run.decided) : p.to_do = "Delete"
    /\ \E p \in Range(run.decided) : p.to_do = "MarkDelete"
    /\ \E p \in Range(run.decided) : p.to_do = "Repack"
    /\ DOMAIN packFiles \ (LiveRefs(indexFiles) \cup TombRefs(indexFiles)) # {}

-----------------------------------------------------------------------------
(* C7 *)

\* the pack was created more recently than keep_pack before the run
CreatedWithinKeepPack(p) == p.time # NoTime /\ p.time > run.time - run.opts.keep_pack

\* the blobs of the pack that the run has to preserve
UsedBlobsOf(p) == {p.blobs[k].id : k \in 1..Len(p.blobs)} \cap run.used

-----------------------------------------------------------------------------
(* C8 *)

\* the live packs that run r found without a used blob and older than keep_pack
UnusedLiveOld(r) ==
    {p \in Range(r.decided) :
        /\ ~p.delete_mark
        /\ {p.blobs[k].id : k \in 1..Len(p.blobs)} \cap r.used = {}
        /\ ~(p.time # NoTime /\ p.time > r.time - r.opts.keep_pack)}

\* run r has completed, without instant_delete and with keep_delete 0
PhaseRun(r) ==
    /\ r.pc = "idle" /\ r.result = "ok" /\ ~r.opts.dry_run
    /\ ~r.opts.instant_delete /\ r.opts.keep_delete = 0

\* C8: a run without instant_delete and with keep_delete 0 leaves an unused live
\* pack older than keep_pack in packs_to_delete, its file in the store; the next
\* run with keep_delete 0, the pack still unused, removes the file, and no index
\* file lists the pack then.
C8_TwoPhaseDeletion ==
    /\ PhaseRun(run) =>
          \A p \in UnusedLiveOld(run) :
              /\ p.id \in DOMAIN start.packFiles => p.id \in DOMAIN packFiles
              /\ p.id \in TombRefs(indexFiles) /\ p.id \notin LiveRefs(indexFiles)
    /\ (PhaseRun(prev.run) /\ Completed /\ ~run.opts.dry_run /\ run.opts.keep_delete = 0) =>
          \A p \in UnusedLiveOld(prev.run) :
              {p.blobs[k].id : k \in 1..Len(p.blobs)} \cap run.used = {} =>
                  /\ p.id \notin DOMAIN packFiles
                  /\ p.id \notin LiveRefs(indexFiles) \cup TombRefs(indexFiles)

\* the second run has completed: the pack that the first run moved to
\* packs_to_delete, its file in the store when the second run started, is gone
C8_Witness ==
    /\ PhaseRun(prev.run) /\ PhaseRun(run)
    /\ \E p \in UnusedLiveOld(prev.run) :
          /\ p.id \in LiveRefs(prev.start.indexFiles)
          /\ p.id \in DOMAIN start.packFiles /\ p.id \in TombRefs(start.indexFiles)
          /\ p.id \notin DOMAIN packFiles
          /\ p.id \notin LiveRefs(indexFiles) \cup TombRefs(indexFiles)

-----------------------------------------------------------------------------
(* C9 *)

\* the snapshots that the last command found in the store and had to keep
MustKeep == {sn \in fg.before : must_keep(sn, fg.now)}

\* C9: a snapshot for which must_keep(now) holds is not in the forget list of
\* forget, and is in the store after forget and after merge --delete.
C9_MustKeepNotForgotten ==
    fg.cmd \in {"forget", "merge"} =>
        \A sn \in MustKeep : sn.id \notin fg.forget_snaps /\ sn \in snapshots

\* forget was given the id of a snapshot that must be kept, and has removed the
\* other snapshot it was given
C9_Witness ==
    /\ fg.cmd = "forget" /\ ~fg.dry_run
    /\ \E sn \in MustKeep : sn.id \in fg.ids /\ sn.delete.kind = "After"
    /\ \E sn \in fg.before : sn.id \in fg.ids /\ sn \notin snapshots

-----------------------------------------------------------------------------
(* C10 *)

\* C10: forget without ids and with the default KeepOptions puts in the forget
\* list only snapshots for which must_delete(now) holds and must_keep(now) does not.
C10_DefaultKeeps ==
    (fg.cmd = "forget" /\ fg.ids = {} /\ fg.keep = KeepDefault) =>
        /\ fg.forget_snaps \subseteq
              {sn.id : sn \in {x \in fg.before : must_delete(x, fg.now) /\ ~must_keep(x, fg.now)}}
        /\ \A sn \in fg.before : ~must_delete(sn, fg.now) => sn \in snapshots

\* forget without ids and with the default KeepOptions has removed a snapshot that
\* must be deleted and has kept one without a reason to keep it
C10_Witness ==
    /\ fg.cmd = "forget" /\ fg.ids = {} /\ fg.keep = KeepDefault /\ ~fg.dry_run
    /\ fg.forget_snaps # {}
    /\ \E i \in 1..Len(fg.rows) : fg.rows[i].action = "keep" /\ fg.rows[i].reason = <<>>

-----------------------------------------------------------------------------
(* Reading the table of a forget command *)

\* the snapshot of a row of the table
RowSnapshot(i) == CHOOSE sn \in fg.before : sn.id = fg.rows[i].id

\* the rows i and j are of the same group
SameGroup(i, j) == fg.ids # {} \/ RowSnapshot(i).group = RowSnapshot(j).group

\* the rows of the group of row i
GroupRows(i) == {j \in 1..Len(fg.rows) : SameGroup(i, j)}

\* row i has a row of its group before it
HasPrev(i) == i > 1 /\ SameGroup(i, i - 1)

\* the snapshot of row i is the first of its bucket b in the scan of its group
BeginsBucket(i, b) == ~HasPrev(i) \/ ~check_fun(b, RowSnapshot(i), RowSnapshot(i - 1))

\* the snapshot of row i reaches the test of the keep options
Tested(i) ==
    /\ fg.ids = {}
    /\ ~must_keep(RowSnapshot(i), fg.now)
    /\ ~must_delete(RowSnapshot(i), fg.now)

\* row i has the reason r
HasReason(i, r) == \E k \in 1..Len(fg.rows[i].reason) : fg.rows[i].reason[k] = r

\* the rows of the group of row i, as a table of their own
RECURSIVE RowsOf(_, _)
RowsOf(i, k) ==
    IF k > Len(fg.rows) THEN <<>>
    ELSE (IF SameGroup(i, k) THEN <<fg.rows[k]>> ELSE <<>>) \o RowsOf(i, k + 1)

\* the tables forget makes of the group of row i when the store holds no other
\* group
AloneRows(i) ==
    LET g == {sn \in fg.before : \E j \in GroupRows(i) : sn.id = fg.rows[j].id}
    IN {forget_group(p, 1, fg.keep, p[1].time, fg.now, fg.ids, fg.ids = {} /\ fg.keep = KeepDefault) :
           p \in SortedOrders(g)}

-----------------------------------------------------------------------------
(* C11 *)

\* keep_last = N > 0 is the only keep option of the command
OnlyKeepLast ==
    /\ fg.keep.keep["last"] > 0
    /\ fg.keep = [KeepDefault EXCEPT !.keep["last"] = fg.keep.keep["last"]]

\* C11: a counter that is 0 gives its reason to no snapshot; a counter that is -1
\* stays -1 and gives its reason to every tested snapshot that begins a bucket; a
\* counter N > 0 gives its reason to at most N snapshots of a group. With keep_last
\* = N > 0 alone and no delete policy, the first min(N, size) snapshots of each
\* group, the newest, are kept and the others removed. The table of a group is the
\* one forget makes of the group alone.
C11_KeepCounters ==
    fg.cmd = "forget" =>
        \A i \in 1..Len(fg.rows) :
            /\ \A b \in Range(Buckets) :
                  /\ fg.keep.keep[b] = 0 => ~HasReason(i, b)
                  /\ fg.keep.keep[b] = -1 =>
                        /\ fg.rows[i].counters[b] = -1
                        /\ (Tested(i) /\ BeginsBucket(i, b)) => HasReason(i, b)
                  /\ fg.keep.keep[b] > 0 =>
                        Cardinality({j \in GroupRows(i) : HasReason(j, b)}) <= fg.keep.keep[b]
            /\ (OnlyKeepLast /\ fg.ids = {} /\ \A sn \in fg.before : sn.delete = NotSet) =>
                  /\ fg.rows[i].action =
                        IF Cardinality({j \in GroupRows(i) : j <= i}) <= fg.keep.keep["last"]
                        THEN "keep" ELSE "remove"
                  /\ \A j \in GroupRows(i) :
                        (fg.rows[i].action = "keep" /\ fg.rows[j].action = "remove")
                            => RowSnapshot(i).time >= RowSnapshot(j).time
            /\ ~HasPrev(i) => RowsOf(i, 1) \in AloneRows(i)

\* forget with keep_last = 1 alone has gone through two groups of two or more
\* snapshots without a delete policy: it has kept one snapshot of each and removed
\* the others
C11_Witness ==
    /\ fg.cmd = "forget" /\ fg.ids = {} /\ OnlyKeepLast /\ fg.keep.keep["last"] = 1
    /\ \A sn \in fg.before : sn.delete = NotSet
    /\ \E i, j \in 1..Len(fg.rows) :
          /\ ~SameGroup(i, j)
          /\ Cardinality(GroupRows(i)) >= 2 /\ Cardinality(GroupRows(j)) >= 2
          /\ HasReason(i, "last") /\ HasReason(j, "last")
    /\ \E i \in 1..Len(fg.rows) : fg.rows[i].action = "remove"

-----------------------------------------------------------------------------
(* C12 *)

\* forget has run with the options of the scenario on the snapshots of the scenario
ScenarioRun == fg.cmd = "forget" /\ fg.ids = {} /\ fg.keep = ScenarioKeep /\ fg.before \in ScenarioSets

\* C12 as stated: with keep_daily = 2, keep_weekly = 1, keep_monthly = 1 and
\* keep_yearly = 1, forget keeps all of the snapshots at t, t-1d, t-7d, t-30d and
\* t-365d, and all of them without the one at t-1d.
C12_ScenarioAllKept == ScenarioRun => fg.forget_snaps = {}

\* C12, amended: the newest snapshot uses up the weekly, monthly and yearly counters
\* and one of the two daily ones; the next snapshot (t-1d, or t-7d when t-1d is
\* absent) uses up the other daily one; all older snapshots are removed.
C12_Scenario ==
    ScenarioRun =>
        /\ fg.forget_snaps = {sn.id : sn \in fg.before} \ {"A0", IF "A1" \in {sn.id : sn \in fg.before} THEN "A1" ELSE "A7"}
        /\ \A i \in 1..Len(fg.rows) :
              /\ fg.rows[i].id = "A0" => fg.rows[i].reason = <<"daily", "weekly", "monthly", "yearly">>
              /\ fg.rows[i].action = "keep" /\ fg.rows[i].id # "A0" => fg.rows[i].reason = <<"daily">>

\* the scenario has been run with the five snapshots, and three are removed
C12_Witness ==
    /\ ScenarioRun /\ ~fg.dry_run
    /\ Cardinality(fg.before) = 5
    /\ {sn.id : sn \in snapshots} = {"A0", "A1"}

-----------------------------------------------------------------------------
(* C13 *)

\* latest_time of the group of row i: the time of its first row
LatestTime(i) == RowSnapshot(CHOOSE j \in GroupRows(i) : \A k \in GroupRows(i) : j <= k).time

\* the snapshot of row i is newer than keep_within of bucket b before latest_time
Within(i, b) == RowSnapshot(i).time + fg.keep.keep_within[b] > LatestTime(i)

\* row i is the last of its group
LastOfGroup(i) == \A j \in GroupRows(i) : j <= i

\* C13 as stated: every tested snapshot with sn.time + keep_within_<bucket> >
\* latest_time is kept, with the "within" reason of the bucket.
C13_KeepWithin_Any ==
    fg.cmd = "forget" =>
        \A i \in 1..Len(fg.rows), b \in Range(Buckets) :
            (Tested(i) /\ Within(i, b)) =>
                fg.rows[i].action = "keep" /\ HasReason(i, "within " \o b)

\* C13, amended: a tested snapshot gets the "within" reason of a bucket (and is
\* kept) exactly when it is within the duration and begins a bucket of that kind in
\* the scan of its group: it is the first of the group, or is not in the bucket of
\* the snapshot before it, or is the last of the group.
C13_KeepWithin ==
    fg.cmd = "forget" =>
        \A i \in 1..Len(fg.rows), b \in Range(Buckets) :
            Tested(i) =>
                /\ HasReason(i, "within " \o b) <=> (Within(i, b) /\ (BeginsBucket(i, b) \/ LastOfGroup(i)))
                /\ HasReason(i, "within " \o b) => fg.rows[i].action = "keep"

\* with a duration for the days, forget has kept a snapshot that is not the first
\* of its group for it, and has removed one that is within the duration, on the
\* day of the snapshot before it
C13_Witness ==
    /\ fg.cmd = "forget" /\ fg.keep.keep_within["daily"] > 0
    /\ \E i \in 1..Len(fg.rows) : HasPrev(i) /\ ~LastOfGroup(i) /\ HasReason(i, "within daily")
    /\ \E i \in 1..Len(fg.rows) :
          Tested(i) /\ Within(i, "daily") /\ ~BeginsBucket(i, "daily") /\ fg.rows[i].action = "remove"

-----------------------------------------------------------------------------
(* C14 *)

\* C14: the decisions of forget are the same for every order in which the
\* snapshots of a group are supplied, also when two snapshots have equal times.
C14_OrderIndependent == fg.cmd = "forget" => Cardinality(fg.outcomes) = 1

\* two snapshots of a group have the same time
TiedTimes ==
    \E a, b \in fg.before : a.id # b.id /\ a.time = b.time /\ (fg.ids # {} \/ a.group = b.group)

\* the decisions are the same for every order when no two snapshots of a group have
\* the same time
C14_OrderIndependent_DistinctTimes ==
    (fg.cmd = "forget" /\ ~TiedTimes) => Cardinality(fg.outcomes) = 1

\* what the turns of decide_repack show: the candidates, their kinds, and the
\* plan's sums; Turn(i).to_do is what decide_repack has decided in the end
Planned_ok == run.result = "ok" /\ run.opts.dry_run
Turns == 1..Len(run.turns)
Turn(i) == run.turns[i]
\* the used bytes of the packs the plan repacks, and the size of the repository
RepackUsed == run.stats.repack - run.stats.repackrm
RepoSize == SizeStats_total(run.stats)
\* the candidate of turn i was kept and no rule but the budget kept it
KeptForBudget(i) ==
    /\ Turn(i).did = "Keep"
    /\ ~(Turn(i).reason = "SizeMismatch" /\ run.opts.no_resize)
    /\ ~(/\ Turn(i).unused_after_prune < run.limits.max_unused
          /\ Turn(i).reason = "PartlyUsed"
          /\ Turn(i).pi.blob_type = "Data")

\* C15: with --max-repack P percent the used bytes of the packs to repack stay
\* below P/100 of the size of the repository; with an absolute size S they stay
\* below S; with unlimited no candidate is kept for the budget
C15_RepackBudget ==
    Planned_ok =>
        CASE run.opts.max_repack.kind = "Percentage" ->
                RepackUsed = 0 \/ RepackUsed * 100 < run.opts.max_repack.v * RepoSize
          [] run.opts.max_repack.kind = "Size" ->
                RepackUsed = 0 \/ RepackUsed < run.opts.max_repack.v
          [] OTHER -> \A i \in Turns : ~KeptForBudget(i)

\* the part of C15 for sizes and for unlimited alone
C15_RepackBudget_Size ==
    Planned_ok /\ run.opts.max_repack.kind # "Percentage" => C15_RepackBudget

\* the budget allows the candidate of turn i
BudgetAllows(i) == Turn(i).total_repack_size + Turn(i).pi.used_size < run.limits.max_repack
\* the unused space left after the prune is at or above the tolerated limit at turn i
UnusedAtLimit(i) == Turn(i).unused_after_prune >= run.limits.max_unused
\* C16 as stated: every candidate, of any blob type and any repack reason, is
\* set to Repack exactly if the budget allows it and unused_after_prune is at or
\* above max_unused at its turn, and to Keep otherwise; with
\* --repack-uncompressed max_unused is 0
C16_Repack_AnyCandidate ==
    Planned_ok =>
        /\ run.opts.repack_uncompressed => run.limits.max_unused = 0
        /\ \A i \in Turns :
              /\ Turn(i).to_do \in {"Repack", "Keep"}
              /\ Turn(i).to_do = "Repack" <=> BudgetAllows(i) /\ UnusedAtLimit(i)

\* C16, amended: the limit of unused space is tested for the partly used data
\* packs only. A candidate is kept in its turn exactly if the budget does not
\* allow it, or it is a partly used data pack and unused_after_prune is below
\* max_unused, or it is a pack of the wrong size and --no-resize is given.
\* Otherwise a pack of the wrong size is put aside for the decision on resizing,
\* and every other candidate is set to Repack. With --repack-uncompressed
\* max_unused is 0.
C16_Repack ==
    Planned_ok =>
        /\ run.opts.repack_uncompressed => run.limits.max_unused = 0
        /\ \A i \in Turns :
              LET kept == \/ ~BudgetAllows(i)
                          \/ /\ ~UnusedAtLimit(i)
                             /\ Turn(i).reason = "PartlyUsed"
                             /\ Turn(i).pi.blob_type = "Data"
                          \/ Turn(i).reason = "SizeMismatch" /\ run.opts.no_resize
              IN /\ Turn(i).to_do \in {"Repack", "Keep"}
                 /\ kept => Turn(i).to_do = "Keep"
                 /\ ~kept /\ Turn(i).reason # "SizeMismatch" => Turn(i).to_do = "Repack"
                 /\ ~kept /\ Turn(i).reason = "SizeMismatch" => Turn(i).did = "Resize"

\* a plan with a tree pack set to Repack while unused_after_prune is below
\* max_unused, and a partly used data pack kept for that limit
C16_Witness ==
    /\ Planned_ok
    /\ \E i, j \in Turns :
          /\ Turn(i).pi.blob_type = "Tree" /\ ~UnusedAtLimit(i) /\ Turn(i).to_do = "Repack"
          /\ Turn(j).pi.blob_type = "Data" /\ Turn(j).reason = "PartlyUsed"
          /\ BudgetAllows(j) /\ ~UnusedAtLimit(j) /\ Turn(j).to_do = "Keep"

\* more plans of decide_repack: a candidate kept for the budget next to one
\* repacked, a partly used data pack repacked at the limit, an uncompressed pack
\* repacked, a pack of the wrong size put aside
C16_Reached_Budget ==
    Planned_ok /\ \E i, k \in Turns : Turn(i).to_do = "Repack" /\ ~BudgetAllows(k) /\ Turn(k).to_do = "Keep"
C16_Reached_Data ==
    /\ Planned_ok /\ run.limits.max_unused > 0
    /\ \E i \in Turns : /\ Turn(i).pi.blob_type = "Data" /\ Turn(i).reason = "PartlyUsed"
                         /\ Turn(i).to_do = "Repack"
C16_Reached_ToCompress ==
    Planned_ok /\ \E i \in Turns : Turn(i).reason = "ToCompress" /\ Turn(i).to_do = "Repack"
C16_Reached_ToCompress_Kept ==
    Planned_ok /\ \E i \in Turns : Turn(i).reason = "ToCompress" /\ Turn(i).to_do = "Keep"
C16_Reached_Resize ==
    Planned_ok /\ \E i \in Turns : Turn(i).reason = "SizeMismatch" /\ Turn(i).did = "Resize"

\* what a check run shows: it has ended, the live packs of the index, the pack
\* files that differ from what the index describes, and the packs with an error
\* logged by the loop over the packs
CheckDone == fg.cmd = "check" /\ fg.pc = "done"
ReadErrors == {"size", "hash", "header length", "header", "uncompressed length", "blob hash", "Err"}
Differs(pack) ==
    \/ pack.id \notin DOMAIN packFiles
    \/ StoredPack(pack, packFiles[pack.id], fg.bytes[pack.id]) # WrittenPack(pack)
Reported(pack) == \E e \in fg.errors : e.id = pack.id /\ e.kind \in ReadErrors

\* C17: with --read-data every pack of the index is verified: a pack whose stored
\* bytes differ from what the index describes has an error reported for its id, a
\* pack that agrees has none, and a failure on one pack does not stop the
\* verification of the others
C17_EveryPackVerified ==
    CheckDone /\ fg.read_data /\ fg.result # "err" =>
        \A pack \in LivePacks(indexFiles) :
            /\ pack.id \in DOMAIN packFiles => pack.id \in fg.checked
            /\ Differs(pack) <=> Reported(pack)

\* the part of C17 that holds: in a run that ends without a panic every pack is
\* verified, and an error is reported for exactly the packs that differ
C17_EveryPackVerified_NoPanic ==
    CheckDone /\ fg.read_data /\ fg.result = "ok" =>
        \A pack \in LivePacks(indexFiles) : pack.id \in fg.checked /\ (Differs(pack) <=> Reported(pack))

\* a run without a panic that has reported a damaged pack and passed another
C17_Reached ==
    /\ CheckDone /\ fg.read_data /\ fg.result = "ok" /\ fg.reversed
    /\ \E p, q \in LivePacks(indexFiles) : Reported(p) /\ ~Reported(q) /\ ~Differs(q)

\* C18: when check finds an integrity error, it returns an error result
C18_ErrorSurfaces ==
    CheckDone /\ fg.errors # {} => fg.result = "err"

\* what a call of find_ids shows: the listed ids whose hex form starts with a string
Matches(str) == {id \in fg.listing : starts_with(to_hex(id), str)}
FindDone == fg.cmd = "find" /\ fg.pc = "find_ids"

\* C19 as stated: find_ids returns, for every requested string, the one listed id
\* whose hex form starts with it, fails with the not-found error when a string
\* matches no listed id and with the not-unique error when a string matches two
\* or more; every Id it returns is in the listing
C19_Resolve_All ==
    FindDone =>
        IF \A i \in 1..Len(fg.ids) : Cardinality(Matches(fg.ids[i])) = 1
        THEN /\ fg.result.ok
             /\ \A i \in 1..Len(fg.ids) : fg.result.ids[i] \in Matches(fg.ids[i])
        ELSE /\ ~fg.result.ok
             /\ LET i == CHOOSE i \in 1..Len(fg.ids) :
                            /\ Cardinality(Matches(fg.ids[i])) # 1
                            /\ \A j \in 1..(i - 1) : Cardinality(Matches(fg.ids[j])) = 1
                IN fg.result.err = IF Matches(fg.ids[i]) = {} THEN "no suitable id found" ELSE "not unique"

\* every requested string is a full id
AllFull == \A i \in 1..Len(fg.ids) : from_hex(fg.ids[i]).ok

\* C19, amended: when every requested string is a full id, find_ids returns the
\* ids as they are parsed and does not look at the listing; otherwise it resolves
\* every string against the listing as stated, so every Id it then returns is
\* in the listing
C19_Resolve ==
    FindDone =>
        IF AllFull
        THEN fg.result.ok /\ \A i \in 1..Len(fg.ids) : fg.result.ids[i] = from_hex(fg.ids[i]).id
        ELSE C19_Resolve_All

\* a prefix and a full id resolved together, with two files listed; and the call
\* of find_starts_with agrees
C19_Witness ==
    /\ FindDone /\ fg.result.ok /\ ~AllFull /\ Len(fg.ids) = 2
    /\ Len(fg.ids[1]) = 1 /\ Len(fg.ids[2]) = IdLen
    /\ Cardinality(fg.listing) >= 2

\* more calls: not found, not unique, a full id that is not listed
C19_Reached_NotFound == FindDone /\ ~AllFull /\ fg.result.err = "no suitable id found"
C19_Reached_NotUnique == FindDone /\ ~AllFull /\ fg.result.err = "not unique"
C19_Reached_Unlisted == FindDone /\ AllFull /\ \E i \in 1..Len(fg.ids) : fg.result.ids[i] \notin fg.listing

\* what a read shows: the last read, and whether it read the file written last
HasRead == fg.cmd = "backend" /\ fg.read # <<>>
LastRead == fg.read[1]
ReadWritten == HasRead /\ fg.written # <<>> /\ LastRead.id = fg.written[1].id
IsJson(data) == data # <<>> /\ Head(data) \in {Brace, Bracket}

\* C20: read_encrypted_full decodes the remainder of a payload that begins with
\* 0x02, returns a payload that begins a JSON document as it is, and gives an
\* error value, never a crash, for every other payload, the empty one included;
\* a JSON document written by hash_write_full is read back unchanged
C20_ReadDispatch ==
    /\ HasRead =>
          /\ LastRead.out.res \in {"ok", "err"}
          /\ (LastRead.payload # <<>> /\ Head(LastRead.payload) = ZstdTag) =>
                LastRead.out = IF decode_all(Tail(LastRead.payload)).ok
                               THEN [res |-> "ok", data |-> decode_all(Tail(LastRead.payload)).data]
                               ELSE [res |-> "err", data |-> <<>>]
          /\ IsJson(LastRead.payload) => LastRead.out = [res |-> "ok", data |-> LastRead.payload]
          /\ (LastRead.payload = <<>> \/ (~IsJson(LastRead.payload) /\ Head(LastRead.payload) # ZstdTag)) =>
                LastRead.out.res = "err"
    /\ ReadWritten /\ IsJson(fg.written[1].data) =>
          LastRead.out = [res |-> "ok", data |-> fg.written[1].data]

\* the part of C20 for the payloads that are not empty
C20_ReadDispatch_NotEmpty ==
    HasRead /\ LastRead.payload # <<>> => C20_ReadDispatch

\* a JSON document written with zstd and read back
C20_Reached ==
    ReadWritten /\ fg.zstd /\ IsJson(fg.written[1].data) /\ Len(fg.written[1].data) = MaxPayload

\* what a pack header shows once it is written and once it is read back
HeaderWritten == fg.cmd = "header" /\ fg.pc \in {"written", "read"}
HeaderParsed == fg.cmd = "header" /\ fg.pc = "read"
BlobLengths(blobs) == SumSeq([k \in 1..Len(blobs) |-> blobs[k].length])
Compressed(blobs) == {k \in 1..Len(blobs) : blobs[k].uncompressed_length # 0}
Contiguous(blobs) ==
    \A k \in 1..Len(blobs) : blobs[k].offset = BlobLengths(SubSeq(blobs, 1, k - 1))

\* C21: the pack size derived from the index blobs of a pack is the sum of the
\* blob lengths plus the header length plus 4; the header length is 32 for the
\* encryption plus the length of the written entries, 37 for each uncompressed
\* and 41 for each compressed one; the offsets of a parsed header are the prefix
\* sums of the entry lengths, and the header of blobs with contiguous offsets is
\* parsed to the same blobs
C21_PackSize ==
    /\ HeaderWritten =>
          /\ fg.pack_size = BlobLengths(fg.blobs) + fg.size + 4
          /\ fg.size = 32 + Len(fg.binary)
          /\ fg.size = 32 + 37 * (Len(fg.blobs) - Cardinality(Compressed(fg.blobs)))
                          + 41 * Cardinality(Compressed(fg.blobs))
    /\ HeaderParsed =>
          /\ fg.parsed.ok /\ Len(fg.parsed.blobs) = Len(fg.blobs)
          /\ Contiguous(fg.parsed.blobs)
          /\ Contiguous(fg.blobs) => fg.parsed.blobs = fg.blobs

\* a header of three entries, compressed and uncompressed, read back
C21_Witness ==
    /\ HeaderParsed /\ Len(fg.blobs) = MaxBlobs /\ Contiguous(fg.blobs)
    /\ Compressed(fg.blobs) # {} /\ Cardinality(Compressed(fg.blobs)) < Len(fg.blobs)
    /\ fg.parsed.blobs[MaxBlobs].offset > 0

\* blobs listed in another order than the pack stores them are not read back
C21_Reached_Reversed == HeaderParsed /\ ~Contiguous(fg.blobs) /\ fg.parsed.blobs # fg.blobs

\* the read tasks of a call of restore_contents or of warm_up that are spawned
\* and not yet taken from the stream, while the call runs
Reading == fg.cmd \in {"restore", "warm_up"} /\ fg.pc \in {"loop", "collect"}
InFlight == stream_len(fg)

\* C22: while restore_contents or warm_up runs, at most MAX_READER = 20 spawned
\* read tasks are not yet reaped
C22_InFlightCap ==
    Reading => InFlight <= MAX_READER

\* what the loop keeps: at most MAX_READER + 1 tasks are in flight
C22_InFlightCap_PlusOne ==
    Reading => InFlight <= MAX_READER + 1

\* the loop has drained the stream and has gone on to spawn the last task
C22_Reached == Reading /\ fg.blobs = MaxTasks /\ fg.todo = 0 /\ fg.running = MAX_READER + 1

\* the run is the second of two prune runs with the same options and keep_delete 0,
\* the first one completed; no command wrote to the store in between
FirstRunDone ==
    /\ prev.run.pc = "idle" /\ prev.run.result = "ok" /\ ~prev.run.opts.dry_run
    /\ prev.run.opts.keep_delete = 0
SecondRun ==
    /\ FirstRunDone
    /\ run.opts = prev.run.opts /\ run.ignore = prev.run.ignore
StoreAtStart == indexFiles = start.indexFiles /\ packFiles = start.packFiles

CleanAtStart ==
    /\ TombRefs(start.indexFiles) = {}
    /\ \A i \in DOMAIN start.indexFiles : \A k \in 1..Len(start.indexFiles[i].packs) :
          LET p == start.indexFiles[i].packs[k]
          IN size_ok(IndexPack_blob_type(p), IndexPack_pack_size(p))

HasPlan == run.result # "err" /\ run.infos # <<>>
InfoOf(p) == (CHOOSE n \in Range(run.infos) : n.id = p.id).pi
Tombstoned == {p \in Range(run.decided) : p.delete_mark}
WetCompleted == Completed /\ ~run.opts.dry_run

\* C24: a tombstoned pack credited with a used blob is decided Recover, and a
\* completed run lists it in `packs` of a new index file with the time of the
\* run; a tombstoned pack credited with no used blob is decided Delete when the
\* run time minus its time is keep_delete or more, else KeepMarked; no other
\* decision is taken for a tombstoned pack, and no pack is left Undecided
C24_Tombstoned ==
    /\ HasPlan =>
          \A p \in Tombstoned :
              p.to_do = IF InfoOf(p).used_blobs >= 1 THEN "Recover"
                        ELSE IF run.time - p.time >= run.opts.keep_delete THEN "Delete"
                        ELSE "KeepMarked"
    /\ \A p \in Range(run.decided) : p.to_do # "Undecided"
    /\ HasPlan /\ WetCompleted =>
          \A p \in Tombstoned :
              p.to_do = "Recover" =>
                  /\ p.id \notin TombRefs(indexFiles)
                  /\ \E i \in DOMAIN indexFiles \ DOMAIN start.indexFiles :
                        \E k \in 1..Len(indexFiles[i].packs) :
                            indexFiles[i].packs[k].id = p.id /\ indexFiles[i].packs[k].time = run.time

\* a completed run has recovered a pack tombstoned at another time, next to a
\* tombstoned pack without a used blob
C24_Witness ==
    /\ HasPlan /\ WetCompleted
    /\ \E p \in Tombstoned : p.to_do = "Recover" /\ p.time # run.time
    /\ \E p \in Tombstoned : p.to_do = "Delete"

\* a tombstoned pack kept marked, and a candidate decided by decide_repack
C24_Reached_KeepMarked == HasPlan /\ \E p \in Tombstoned : p.to_do = "KeepMarked"
C24_Reached_Candidate == HasPlan /\ Tombstoned # {} /\ run.turns # <<>>

\* the ids of the blob entries of a pack, the used ones among them, and the packs
\* that the index files list as live when the run starts
BlobIds(p) == {p.blobs[k].id : k \in 1..Len(p.blobs)}
UsedIn(p) == BlobIds(p) \cap run.used
LiveAtStart == UNION {Range(start.indexFiles[i].packs) : i \in DOMAIN start.indexFiles}
InLivePack(b) == \E q \in LiveAtStart : b \in BlobIds(q)

\* the number of blob entries with id b in the packs that decide_packs visits
Copies(b) ==
    SumSeq([n \in 1..Len(run.decided) |->
               Cardinality({k \in 1..Len(run.decided[n].blobs) : run.decided[n].blobs[k].id = b})])

\* C25 as stated: a tombstoned pack whose used blobs all occur in a live pack as
\* well is credited with no used blob and is decided Delete or KeepMarked, for
\* every number of copies and every order of the index files
C25_Surrender_AnyCopies ==
    HasPlan =>
        \A p \in Tombstoned :
            (\A b \in UsedIn(p) : InLivePack(b)) =>
                InfoOf(p).used_blobs = 0 /\ p.to_do \in {"Delete", "KeepMarked"}

\* C25, amended: the same, when no used blob of the tombstoned pack has more
\* copies in the index than a counter of used_ids holds (255)
C25_Surrender ==
    HasPlan =>
        \A p \in Tombstoned :
            (\A b \in UsedIn(p) : InLivePack(b) /\ Copies(b) <= U8_MAX) =>
                InfoOf(p).used_blobs = 0 /\ p.to_do \in {"Delete", "KeepMarked"}

\* a tombstoned pack with 254 entries of a used blob that a live pack holds as
\* well: 255 copies, and the tombstoned pack is deleted; and three tombstoned
\* packs that two live packs stand in for
C25_Witness ==
    /\ HasPlan /\ Tombstoned # {} /\ "D1" \in run.used
    /\ Copies("D1") = U8_MAX
    /\ \A p \in Tombstoned : p.to_do = "Delete"
    /\ \E n \in 1..Len(run.decided) : ~run.decided[n].delete_mark /\ "D1" \in BlobIds(run.decided[n])

C25_Reached_Packs ==
    /\ HasPlan /\ Cardinality(Tombstoned) = FewCopies /\ "D1" \in run.used
    /\ Copies("D1") = FewCopies + 2
    /\ \A p \in Tombstoned : p.to_do = "KeepMarked"

\* a tombstoned pack whose used blob is in no live pack is recovered
C25_Reached_Recover ==
    HasPlan /\ \E p \in Tombstoned : p.to_do = "Recover" /\ \E b \in UsedIn(p) : ~InLivePack(b)

\* what from_pack has done on its visit n: the pack, the number of its entries
\* with a blob id, and the ids it has credited to the pack: their counter was
\* not 0 before the visit and is 0 after it
Visits == 1..Len(run.infos)
Visited(n) == CHOOSE p \in Range(run.decided) : p.id = run.infos[n].id
Entries(p, b) == Cardinality({k \in 1..Len(p.blobs) : p.blobs[k].id = b})
Credited(n) ==
    {b \in BlobIds(Visited(n)) \cap run.used : run.infos[n].used_ids[b] > 0 /\ run.infos[n].left[b] = 0}

\* the outcome of decide_packs: every used id is credited in one visit, as one
\* used blob of the pack, every other entry counts as unused, and every counter
\* is 0 in the end
UniqueCredit ==
    /\ \A b \in run.used : Cardinality({n \in Visits : b \in Credited(n)}) = 1
    /\ \A n \in Visits :
          LET pi == run.infos[n].pi
              credited == SetToSeq(Credited(n))
          IN /\ pi.used_blobs = Cardinality(Credited(n))
             /\ pi.used_size = SumSeq([k \in 1..Len(credited) |-> BlobLength(credited[k])])
             /\ pi.used_blobs + pi.unused_blobs = Len(Visited(n).blobs)
    /\ \A b \in run.used : run.counters[b] = 0

\* C26 as stated: from_pack decrements a counter of used_ids exactly once in
\* every pack that holds the id and leaves the other counters alone, and
\* decide_packs credits every used id once
C26_UniqueCredit_OncePerPack ==
    HasPlan =>
        /\ \A n \in Visits : \A b \in run.used :
              run.infos[n].left[b] =
                  IF b \in BlobIds(Visited(n)) THEN run.infos[n].used_ids[b] - 1
                  ELSE run.infos[n].used_ids[b]
        /\ UniqueCredit

\* C26, amended: in a pack that it credits with no used blob, from_pack
\* decrements a counter that is not 0 once for every entry of the pack with the
\* id; in a pack that it credits with a used blob, it leaves the counter of
\* every id of the pack at 0; the other counters are left alone; and
\* decide_packs credits every used id once
C26_UniqueCredit ==
    HasPlan =>
        /\ \A n \in Visits : \A b \in run.used :
              run.infos[n].left[b] =
                  IF b \notin BlobIds(Visited(n)) \/ run.infos[n].used_ids[b] = 0
                  THEN run.infos[n].used_ids[b]
                  ELSE IF run.infos[n].pi.used_blobs = 0
                  THEN run.infos[n].used_ids[b] - Entries(Visited(n), b)
                  ELSE 0
        /\ UniqueCredit

\* a pack with 256 entries of a used blob is credited with one of them, next to
\* a live pack with the blob that is visited later and credited with none
C26_Witness ==
    /\ HasPlan
    /\ \E n \in Visits :
          /\ Entries(Visited(n), "D1") = MaxCopies
          /\ run.infos[n].pi.used_blobs = 1
          /\ run.infos[n].pi.unused_blobs = MaxCopies - 1
    /\ \E n \in Visits :
          /\ ~Visited(n).delete_mark /\ "D1" \in BlobIds(Visited(n))
          /\ run.infos[n].used_ids["D1"] = 0

\* a counter goes down by two on one visit: a pack holds two entries of the id
C26_Reached_Twice ==
    /\ HasPlan /\ "D1" \in run.used
    /\ \E n \in Visits : run.infos[n].left["D1"] = run.infos[n].used_ids["D1"] - 2 /\ run.infos[n].left["D1"] > 0


-----------------------------------------------------------------------------
(* C27: the blobs handed to a Repacker *)

\* how often a blob id has been handed to a Repacker in this run
Handed(b) == Cardinality({i \in 1..Len(run.handed) : run.handed[i].id = b})

\* the blob ids in the packs of the index files the run rewrites
ListedIds == UNION {BlobIds(run.packs[k]) : k \in 1..Len(run.packs)}

\* the blob occurs in a pack the run keeps or recovers
InKept(b) == \E p \in Range(run.decided) : p.to_do \in {"Keep", "Recover"} /\ b \in BlobIds(p)

\* the tasks of do_prune have run, all of them
TasksDone == run.pc # "idle" /\ run.pc # "unindexed" /\ run.pc # "packs"


\* C27: in every interleaving of the steps of the tasks of do_prune, a blob id is
\* handed to a Repacker at most once, and only an id that is used and occurs in no
\* pack decided Keep or Recover; when all tasks have run, every used id that
\* occurs in no Keep or Recover pack has been handed to a Repacker exactly once
C27_HandedOnce ==
    /\ \A i \in 1..Len(run.handed) :
          LET b == run.handed[i].id
          IN Handed(b) = 1 /\ b \in run.used /\ ~InKept(b)
    /\ TasksDone => \A b \in run.used : ~InKept(b) => Handed(b) = 1

\* two Repack tasks that list the same used blob are both under way, and the
\* blob has been handed to a Repacker
C27_Witness ==
    /\ run.pc = "packs"
    /\ \E j, k \in run.todo :
          /\ j # k
          /\ run.pos[j] > 1 /\ run.pos[k] > 1
          /\ run.packs[j].to_do = "Repack" /\ run.packs[k].to_do = "Repack"
          /\ \E b \in BlobIds(run.packs[j]) \cap BlobIds(run.packs[k]) : Handed(b) = 1

\* all tasks have run, a blob of a repacked pack was handed to a Repacker, and
\* another, listed in a kept pack as well, was not
C27_Reached_Done ==
    /\ TasksDone
    /\ run.handed # <<>>
    /\ \E k \in 1..Len(run.packs) :
          run.packs[k].to_do = "Repack" /\ \E b \in UsedIn(run.packs[k]) : InKept(b)


-----------------------------------------------------------------------------
(* C28: the index files as Pruner::new leaves them *)

\* the entries of an index file when the run started, live and tombstoned
EntriesAtStart(id) == Len(start.indexFiles[id].packs) + Len(start.indexFiles[id].packs_to_delete)

\* Pruner::new dropped an entry of the index file
Dropped(x) == x.packs < EntriesAtStart(x.id)

\* the pack ids of the index files when the run started
ListedAtStart ==
    UNION {{q.id : q \in Range(start.indexFiles[i].packs) \cup Range(start.indexFiles[i].packs_to_delete)} :
              i \in DOMAIN start.indexFiles}

\* C28: after Pruner::new every pack id of the index files is in exactly one pack
\* entry, the live one if an index file lists the pack as live; every index file
\* that lost an entry is flagged modified, and filter_index_files selects it
C28_Deduplicated ==
    HasPlan =>
        /\ \A m, n \in 1..Len(run.decided) : run.decided[m].id = run.decided[n].id => m = n
        /\ {p.id : p \in Range(run.decided)} = ListedAtStart
        /\ \A p \in Range(run.decided) : (\E q \in LiveAtStart : q.id = p.id) => ~p.delete_mark
        /\ \A i \in 1..Len(run.indexes) :
              Dropped(run.indexes[i]) => run.indexes[i].modified /\ run.indexes[i].id \in run.selected

\* a pack is live in one index file and tombstoned in another, and the index
\* file with the tombstone lost nothing else
C28_Witness ==
    /\ HasPlan
    /\ \E i \in 1..Len(run.indexes) :
          /\ Dropped(run.indexes[i])
          /\ \E q \in Range(start.indexFiles[run.indexes[i].id].packs_to_delete) :
                \E r \in LiveAtStart : r.id = q.id

\* a pack is live in two index files, and the later one lost its entry
C28_Reached_LiveTwice ==
    /\ HasPlan
    /\ \E i \in 1..Len(run.indexes) :
          /\ Dropped(run.indexes[i])
          /\ start.indexFiles[run.indexes[i].id].packs_to_delete = <<>>

\* a pack is tombstoned in two index files, and the later one lost its entry
C28_Reached_TombstonedTwice ==
    /\ HasPlan
    /\ \E i \in 1..Len(run.indexes) :
          /\ Dropped(run.indexes[i])
          /\ \E q \in Range(start.indexFiles[run.indexes[i].id].packs_to_delete) :
                /\ \A r \in LiveAtStart : r.id # q.id
                /\ \E p \in Range(run.decided) : p.id = q.id /\ p.delete_mark


-----------------------------------------------------------------------------
(* C29: the time of a tombstone *)

\* the times that the packs_to_delete lists of the index files give for a pack
TombTimes(idx, id) ==
    {q.time : q \in {x \in UNION {Range(idx[i].packs_to_delete) : i \in DOMAIN idx} : x.id = id}}

\* the pack tombstoned at time 0 in the first repository of the runs, with the blob
\* D3 that no snapshot uses
OldTombstone == InitPack(5)

\* the run found the pack tombstoned
FoundTombstoned(id) == \E p \in Range(run.decided) : p.id = id /\ p.delete_mark

\* no index file lists the pack and its file is gone
Removed(id) ==
    /\ id \notin DOMAIN packFiles
    /\ \A i \in DOMAIN indexFiles :
          \A q \in Range(indexFiles[i].packs) \cup Range(indexFiles[i].packs_to_delete) : q.id # id

\* C29: while the index files list a pack in packs_to_delete, no step gives it
\* another time there, whatever index files are rewritten; and a run that finds
\* the unused pack tombstoned at time 0 still tombstoned, at a time that is
\* keep_delete or more, decides Delete and, when it completes, has removed the
\* pack, after any number of runs that kept it
C29_ClockKept ==
    /\ [][\A id \in 1..nextId :
            TombTimes(indexFiles, id) # {} => TombTimes(indexFiles', id) \subseteq TombTimes(indexFiles, id)]_vars
    /\ [](HasPlan /\ FoundTombstoned(OldTombstone.id)
             /\ run.time - OldTombstone.time >= run.opts.keep_delete
          => /\ \A p \in Range(run.decided) : p.id = OldTombstone.id => p.to_do = "Delete"
             /\ Completed => Removed(OldTombstone.id))

\* the third run has removed the old tombstoned pack, which the second run had
\* decided KeepMarked and written to a new index file
C29_Witness ==
    /\ runs = 0
    /\ Completed
    /\ \E p \in Range(run.decided) : p.id = OldTombstone.id /\ p.to_do = "Delete"
    /\ Removed(OldTombstone.id)
    /\ prev.run.result = "ok"
    /\ \E p \in Range(prev.run.decided) : p.id = OldTombstone.id /\ p.to_do = "KeepMarked"
    /\ \E x \in Range(prev.run.indexes) :
          /\ x.id \in prev.run.selected
          /\ OldTombstone.id \in {q.id : q \in Range(prev.start.indexFiles[x.id].packs_to_delete)}
    /\ run.time - OldTombstone.time = run.opts.keep_delete


-----------------------------------------------------------------------------
(* C30: the snapshots kept for a calendar bucket *)

\* the buckets with an equivalence predicate
CalendarBuckets == Range(Buckets) \ {"last"}

\* the rows i and j are of one group, and their snapshots fall in the same bucket b
SameBucket(i, j, b) == SameGroup(i, j) /\ check_fun(b, RowSnapshot(i), RowSnapshot(j))

\* row i is kept with the counter reason of bucket b
KeptFor(i, b) == fg.rows[i].action = "keep" /\ HasReason(i, b)

\* no snapshot in the bucket b of row i is newer than that of row i
NewestOfBucket(i, b) ==
    \A j \in 1..Len(fg.rows) : SameBucket(i, j, b) => RowSnapshot(i).time >= RowSnapshot(j).time

\* C30 as stated: no two snapshots of a group in the same bucket are both kept
\* with the counter reason of the bucket, and a snapshot kept with it is the
\* newest of its bucket.
C30_OnePerBucket_Any ==
    fg.cmd = "forget" =>
        \A b \in CalendarBuckets, i \in 1..Len(fg.rows) :
            KeptFor(i, b) =>
                /\ NewestOfBucket(i, b)
                /\ \A j \in 1..Len(fg.rows) : (j # i /\ SameBucket(i, j, b)) => ~KeptFor(j, b)

\* C30, amended: of the snapshots of a group other than the last one scanned, the
\* oldest, no two in the same bucket are both kept with the counter reason of
\* the bucket, and one kept with it is the newest of its bucket; the last one
\* scanned is kept with it whenever it reaches the test of the keep options with
\* the counter not 0, also in the bucket of the snapshot before it.
C30_OnePerBucket ==
    fg.cmd = "forget" =>
        \A b \in CalendarBuckets, i \in 1..Len(fg.rows) :
            /\ (KeptFor(i, b) /\ ~LastOfGroup(i)) =>
                  /\ NewestOfBucket(i, b)
                  /\ \A j \in 1..Len(fg.rows) :
                        (j # i /\ ~LastOfGroup(j) /\ SameBucket(i, j, b)) => ~KeptFor(j, b)
            /\ (LastOfGroup(i) /\ Tested(i) /\ HasPrev(i) /\ fg.rows[i - 1].counters[b] # 0) => KeptFor(i, b)

\* with a counter for the days, forget has kept one snapshot of a day for it and
\* not a later row of that day, and it has kept the last of the group for it, on
\* the day of the snapshot before it
C30_Witness ==
    /\ fg.cmd = "forget" /\ fg.keep.keep["daily"] # 0
    /\ \E i, j \in 1..Len(fg.rows) :
          /\ i < j /\ ~LastOfGroup(j) /\ SameBucket(i, j, "daily")
          /\ KeptFor(i, "daily") /\ Tested(j) /\ ~HasReason(j, "daily")
    /\ \E i \in 1..Len(fg.rows) :
          /\ LastOfGroup(i) /\ HasPrev(i) /\ SameBucket(i, i - 1, "daily")
          /\ KeptFor(i, "daily")

====
